---------------------------- MODULE Spec2Model ----------------------------
(***************************************************************************)
(* Retainer backend: serverless handlers that synchronise intake data with *)
(* a remote e-commerce platform (Customer / Order / Metafield / Files).    *)
(*                                                                         *)
(* The module models                                                       *)
(*   - the order-webhook handler in its five revisions                     *)
(*       "main" src/api/retainer/order-webhook.js                          *)
(*       "p3"   src/unnamed/part_003                                       *)
(*       "p4a"  src/unnamed/part_004 lines   1-149                         *)
(*       "p4b"  src/unnamed/part_004 lines 151-376                         *)
(*       "p4c"  src/unnamed/part_004 lines 378-569                         *)
(*   - the intake-upsert handler in its four revisions                     *)
(*       "sf"   src/api/retainer/intake-upsert.js lines   1-288            *)
(*       "adm"  src/api/retainer/intake-upsert.js lines 290-509            *)
(*       "p1"   src/unnamed/part_001                                       *)
(*       "p2"   src/unnamed/part_002                                       *)
(*   - the profile-update handler, src/api/retainer/profile-update.js      *)
(*   - the record handler in its two revisions                             *)
(*       "rec"  src/api/retainer/record.js                                 *)
(*       "p0"   src/unnamed/part_000                                       *)
(*   - the cors function of every handler                                  *)
(* each handler step that awaits a remote call being one action, and the   *)
(* remote platform being the shared state.                                 *)
(***************************************************************************)
EXTENDS Integers, Sequences, FiniteSets, TLC

VARIABLES
  SECRET,      \* process.env.SHOPIFY_WEBHOOK_SECRET ("" when unset)
  whVariant,   \* which revision of order-webhook is deployed
  wh,          \* the webhook invocation in progress (pc = "idle" when none)
  mf,          \* remote: owner -> key -> value of the retainer metafields
  customers,   \* remote: Customer id -> email and account state
  fileCount,   \* remote: number of File records created so far
  whLog,       \* history: the verified deliveries processed so far
  whSnap,      \* history: remote metafields when the last delivery finished
  remote0,     \* history: remote metafields at the start
  SFTOK,       \* SF_TOK, the Storefront API token ("" when unset)
  upVariant,   \* which revision of intake-upsert is deployed
  up,          \* the intake-upsert invocation in progress
  upLog,       \* history: the submissions answered so far
  upSnap,      \* history: the remote state when the last submission was answered
  rcVariant,   \* which revision of the record handler is deployed
  rc,          \* the record invocations in progress, one per client
  rdb,         \* the record store: the table's rows, the objects uploaded
  rcServed,    \* number of record requests received so far
  cr,          \* a handler's allow-list and its answer to a preflight request
  ul,          \* a call of a handler's upload function in progress
  parked       \* a second intake-upsert invocation, waiting for its next step

vars == <<SECRET, whVariant, wh, mf, customers, fileCount, whLog, whSnap, remote0,
          SFTOK, upVariant, up, upLog, upSnap, rcVariant, rc, rdb, rcServed, cr, ul,
          parked>>

\* the state of the record handler and its store
recordVars == <<rcVariant, rc, rdb, rcServed>>

\* what the webhook leaves alone
intakeVars == <<SFTOK, upVariant, up, upLog, upSnap, fileCount, recordVars, cr, ul,
                parked>>

\* what intake-upsert leaves alone
webhookVars == <<SECRET, whVariant, wh, whLog, whSnap, remote0, recordVars, cr, ul,
                 parked>>

\* the state of the webhook, of intake-upsert and of the shop
platformVars == <<SECRET, whVariant, wh, mf, customers, fileCount, whLog, whSnap, remote0,
                  SFTOK, upVariant, up, upLog, upSnap, parked>>

\* the state of the shop's handlers and of the shop
shopVars == <<platformVars, ul>>

---------------------------------------------------------------------------
(* Bounds *)

\* deliveries the webhook processes in one behaviour
MaxDeliveries == 2

---------------------------------------------------------------------------
(* Text values.  A JavaScript string, null or undefined is a record: nil   *)
(* says null/undefined, core is the text without surrounding whitespace    *)
(* and folded to lower case, pad says the text has surrounding whitespace, *)
(* upper says it has upper-case letters.                                   *)

Nil == [nil |-> TRUE, core |-> "", pad |-> FALSE, upper |-> FALSE]
Txt(c) == [nil |-> FALSE, core |-> c, pad |-> FALSE, upper |-> FALSE]
Padded(c) == [nil |-> FALSE, core |-> c, pad |-> TRUE, upper |-> FALSE]
Upper(c) == [nil |-> FALSE, core |-> c, pad |-> FALSE, upper |-> TRUE]
Empty == Txt("")

\* JavaScript truthiness of a string-or-null value
Truthy(t) == ~t.nil /\ ~(t.core = "" /\ ~t.pad)

\* a || b
OrElse(a, b) == IF Truthy(a) THEN a ELSE b

\* a ?? b
Coalesce(a, b) == IF a.nil THEN b ELSE a

\* String(v || '') and (v ?? '').toString(): null becomes the empty string
ToStr(t) == IF t.nil THEN Empty ELSE t

\* String.prototype.trim
Trim(t) == [t EXCEPT !.pad = FALSE]

\* String.prototype.toLowerCase
ToLowerCase(t) == [t EXCEPT !.upper = FALSE]

\* p.value != null && String(p.value).trim() !== ''
NonBlankValue(t) == ~t.nil /\ Trim(t) # Empty

\* texts of the form YYYY-MM-DD
YMDs == {"2000-01-01"}

\* /^\d{4}-\d{2}-\d{2}$/.test(String(s||'')): no surrounding whitespace passes
isYMD(s) == ~s.nil /\ ~s.pad /\ s.core \in YMDs

\* the decimal texts of the numbers that occur; "NaN" is not a number
Decimals == {"0", "3", "3.7"}

\* Number(v) and +v, as the decimal text of the result: null and blank text
\* give 0, surrounding whitespace is ignored, other text that is no decimal
\* gives NaN
Number(v) ==
  IF v.nil \/ v.core = "" THEN "0"
  ELSE IF v.core \in Decimals THEN v.core ELSE "NaN"

\* Number.isInteger / Number.isFinite of such a result
IsInteger(n) == n \in {"0", "3"}
IsFinite(n) == n # "NaN"

---------------------------------------------------------------------------
(* Webhook request: the order payload, the raw body, the signature       *)

OrderIds == {"o1", "o2"}
CustIds == {"c1", "c2"}
NoCust == ""

NA(n, v) == [name |-> n, value |-> v]

Order(id, cust, email, attrs, props) ==
  [id |-> id, cust |-> cust, email |-> email, attrs |-> attrs, props |-> props]

\* the order payloads delivered, by name: order.id, order.customer.id,
\* order.email, order.note_attributes and the properties of order.line_items
\* in iteration order
OrderTable ==
  [ collide  |-> Order("o1", "c1", Txt("u"),
                       <<NA("retainer_plan", Txt("A")), NA("retainer_term", Padded("T1"))>>,
                       <<NA("retainer_plan", Txt("B")), NA("retainer_term", Txt("T2")),
                         NA("intake_dob", Txt("13/2024")),
                         NA("intake_cars_count", Txt("abc")),
                         NA("intake_household_json", Txt("[b]"))>>),
    second   |-> Order("o2", "c1", Nil,
                       <<>>,
                       <<NA("retainer_plan", Txt("B")), NA("retainer_plan", Txt("C")),
                         NA("intake_has_bi", Txt("yes")),
                         NA("dob", Padded("2000-01-01")),
                         NA("cars_count", Txt("3.7"))>>),
    bare     |-> Order("o2", "c1", Nil, <<>>, <<>>),
    anon     |-> Order("o1", NoCust, Nil,
                       <<NA("retainer_plan", Txt("A"))>>,
                       <<NA("retainer_plan", Padded("")),
                         NA("intake_dob", Txt("2000-01-01")),
                         NA("intake_cars_count", Txt("3")),
                         NA("intake_vehicles_json", Txt("[a]"))>>),
    byUpper  |-> Order("o2", NoCust, Upper("u"),
                       <<NA("retainer_plan", Padded(""))>>,
                       <<NA("retainer_plan", Txt("B"))>>),
    byPadded |-> Order("o1", NoCust, Padded("u"), <<NA("retainer_plan", Txt("A"))>>, <<>>) ]

Deliveries == DOMAIN OrderTable

\* a raw request body: the JSON text of a delivery's order, or text that is
\* not JSON (json = FALSE); rev tells two byte strings of one order apart
Body(json, delivery, rev) == [json |-> json, delivery |-> delivery, rev |-> rev]
NoBody == Body(FALSE, "", 0)
Bodies == { Body(TRUE, d, 0) : d \in Deliveries } \cup { NoBody }

\* JSON.parse of a body that is JSON
ParsedOrder(raw) == OrderTable[raw.delivery]

\* the body with one byte changed
Tampered(raw) == [raw EXCEPT !.rev = 1 - @]

---------------------------------------------------------------------------
(* Webhook signature *)

\* length of the base64 text of a SHA-256 digest
DigestLen == 44

NoHeader == [len |-> 0, key |-> "", msg |-> NoBody]
ShortHeader == [len |-> DigestLen - 1, key |-> "", msg |-> NoBody]

\* the x-shopify-hmac-sha256 headers a request for body raw may carry: none,
\* one of another length, the sender's digest, a digest under another
\* secret, the digest of the body before it was tampered with
Headers(raw) ==
  { NoHeader, ShortHeader,
    [len |-> DigestLen, key |-> "s1", msg |-> raw],
    [len |-> DigestLen, key |-> "s2", msg |-> raw],
    [len |-> DigestLen, key |-> "s1", msg |-> Tampered(raw)] }

\* crypto.createHmac('sha256', key).update(raw).digest('base64'): the text
\* of the digest is determined by the key and the bytes signed
HmacBase64(key, raw) == [len |-> DigestLen, key |-> key, msg |-> raw]

VerifyGuarded(secret, header, raw) ==
  IF secret = "" \/ header = NoHeader THEN "reject"
  ELSE LET digest == HmacBase64(secret, raw)
       IN IF digest.len = header.len /\ digest = header THEN "ok" ELSE "reject"

\* verifyHmac without the length guard: crypto.timingSafeEqual throws a
\* RangeError when the two buffers differ in length
VerifyUnguarded(secret, header, raw) ==
  IF header = NoHeader \/ secret = "" THEN "reject"
  ELSE LET digest == HmacBase64(secret, raw)
       IN IF digest.len # header.len THEN "throw"
          ELSE IF digest = header THEN "ok" ELSE "reject"

Verify(variant, secret, header, raw) ==
  IF variant = "p4a" THEN VerifyUnguarded(secret, header, raw)
  ELSE VerifyGuarded(secret, header, raw)

---------------------------------------------------------------------------
(* Metafields *)

Names == {"retainer_plan", "retainer_term", "retainer_has_bi",
          "intake_has_bi", "has_bi", "intake_dob", "dob",
          "intake_cars_count", "cars_count",
          "intake_household_json", "intake_vehicles_json"}

FileKeys == {"signature", "drivers_license", "car_insurance"}

\* the metafield keys modelled; retainer_signature is the key of the custom
\* namespace, the others are keys of the retainer namespace
Keys == {"plan", "term", "bi_info", "retainer_plan", "retainer_term", "has_bi",
         "last_retainer_plan", "last_retainer_term", "current_retainer_plan",
         "insurer", "cars_count", "retainer_signature", "dob",
         "household_list", "vehicles_list"} \cup FileKeys

OrderGid(id) == <<"Order", id>>
CustomerGid(id) == <<"Customer", id>>
NoGid == <<"None", "">>
Owners == { OrderGid(o) : o \in OrderIds } \cup { CustomerGid(c) : c \in CustIds }

NoFields == [k \in Keys |-> Nil]

\* one MetafieldsSetInput
MF(ownerId, key, type, value) ==
  [ownerId |-> ownerId, key |-> key, type |-> type, value |-> value]

\* pullAttrs / pullCartAttributes: later entries overwrite earlier ones
RECURSIVE pullAttrs(_)
pullAttrs(nas) ==
  IF nas = <<>> THEN [n \in Names |-> Nil]
  ELSE LET m == pullAttrs(SubSeq(nas, 1, Len(nas) - 1))
           na == nas[Len(nas)]
       IN [m EXCEPT ![na.name] = na.value]

\* pullProps / pullLineItemProps: only non-blank values are copied
RECURSIVE pullProps(_)
pullProps(ps) ==
  IF ps = <<>> THEN [n \in Names |-> Nil]
  ELSE LET m == pullProps(SubSeq(ps, 1, Len(ps) - 1))
           p == ps[Len(ps)]
       IN IF NonBlankValue(p.value) THEN [m EXCEPT ![p.name] = p.value] ELSE m

pushSL(arr, ownerId, key, val) ==
  LET v == Trim(ToStr(val))
  IN IF Truthy(v) THEN Append(arr, MF(ownerId, key, "single_line_text_field", v))
     ELSE arr

pushBL(arr, ownerId, key, tf) ==
  Append(arr, MF(ownerId, key, "boolean", IF tf THEN Txt("true") ELSE Txt("false")))

pushDT(arr, ownerId, key, val) ==
  LET v == Trim(ToStr(val))
  IN IF isYMD(v) THEN Append(arr, MF(ownerId, key, "date", v)) ELSE arr

pushNI(arr, ownerId, key, n) ==
  LET v == Number(n)
  IN IF IsInteger(v) THEN Append(arr, MF(ownerId, key, "number_integer", Txt(v)))
     ELSE arr

pushFILE(arr, ownerId, key, gid) ==
  IF ~Truthy(gid) THEN arr
  ELSE Append(arr, MF(ownerId, key, "file_reference", gid))

\* the lists that occur: a JSON text of an array, and its entries (the
\* pretty text of a household member or of a vehicle)
ListTexts == [ e0 |-> [json |-> "[]", items |-> <<>>],
               e1 |-> [json |-> "[a]", items |-> <<"a">>],
               e2 |-> [json |-> "[b]", items |-> <<"b">>],
               e3 |-> [json |-> "[ ]", items |-> <<" ">>] ]

\* try { JSON.parse(text) } with Array.isArray of the result: ok says the
\* text is that of an array, items are its entries
JsonArray(t) ==
  LET hits == { n \in DOMAIN ListTexts : ~t.nil /\ ~t.pad /\ ListTexts[n].json = t.core }
  IN IF hits = {} THEN [ok |-> FALSE, items |-> <<>>]
     ELSE [ok |-> TRUE, items |-> ListTexts[CHOOSE n \in hits : TRUE].items]

\* JSON.stringify of a list of entries
Stringify(items) ==
  LET hits == { n \in DOMAIN ListTexts : ListTexts[n].items = items }
  IN Txt(ListTexts[CHOOSE n \in hits : TRUE].json)

\* arr.map(s => String(s||'').trim()).filter(Boolean)
CleanList(items) == SelectSeq(items, LAMBDA e : e # "" /\ e # " ")

pushLIST(arr, ownerId, key, items) ==
  IF items # <<>> /\ CleanList(items) # <<>>
    THEN Append(arr, MF(ownerId, key, "list.single_line_text_field",
                        Stringify(CleanList(items))))
  ELSE arr

\* mfs.some(x => x.key === key)
SomeKey(arr, key) == \E i \in 1..Len(arr) : arr[i].key = key

\* the value of a key as the handler reconciles attributes and properties
PropsFirst(order, key) ==
  OrElse(OrElse(pullProps(order.props)[key], pullAttrs(order.attrs)[key]), Empty)

AttrsFirst(order, key) ==
  OrElse(OrElse(pullAttrs(order.attrs)[key], pullProps(order.props)[key]), Empty)

Reconciled(variant, order, key) ==
  IF variant = "p4a" THEN AttrsFirst(order, key) ELSE PropsFirst(order, key)

hasBI(variant, order) ==
  LET props == pullProps(order.props)
      attrs == pullAttrs(order.attrs)
  IN \/ props["intake_has_bi"] = Txt("yes")
     \/ props["has_bi"] = Txt("true")
     \/ (variant = "main" /\ attrs["retainer_has_bi"] = Txt("yes"))

\* props.intake_dob || props.dob || ''
PropsDob(order) ==
  LET props == pullProps(order.props)
  IN OrElse(OrElse(props["intake_dob"], props["dob"]), Empty)

\* props.intake_cars_count ?? props.cars_count ?? null
PropsCars(order) ==
  LET props == pullProps(order.props)
  IN Coalesce(props["intake_cars_count"], props["cars_count"])

\* String(Number(liProps.intake_cars_count || liProps.cars_count || 0))
PropsCarsText(order) ==
  LET props == pullProps(order.props)
  IN Txt(Number(OrElse(OrElse(props["intake_cars_count"], props["cars_count"]),
                       Txt("0"))))

\* the list derived from a JSON line-item property: the property or '[]',
\* parsed; no entries when it is not the text of an array
DerivedList(order, name) ==
  JsonArray(OrElse(pullProps(order.props)[name], Txt("[]"))).items

\* toPrettyHouse / toPrettyVeh: the entries joined into one line
PrettyLine(items) ==
  IF items = <<>> THEN Empty
  ELSE IF CleanList(items) = <<>> THEN Padded("")
  ELSE Txt(items[1])

\* revision main: the lists as single-line text, from the properties
PrettyLists(arr, order) ==
  LET gid == OrderGid(order.id)
  IN pushSL(pushSL(arr, gid, "household_list",
                   PrettyLine(DerivedList(order, "intake_household_json"))),
            gid, "vehicles_list", PrettyLine(DerivedList(order, "intake_vehicles_json")))

\* the lists mirrored from the Customer that was read; revision p3 falls
\* back to the lists derived from the properties
CustomerLists(variant, arr, order, view) ==
  LET gid == OrderGid(order.id)
      hh == JsonArray(view["household_list"])
      v == JsonArray(view["vehicles_list"])
      dh == DerivedList(order, "intake_household_json")
      dv == DerivedList(order, "intake_vehicles_json")
      a1 == IF hh.ok /\ (variant = "p4b" \/ hh.items # <<>>)
              THEN pushLIST(arr, gid, "household_list", hh.items) ELSE arr
      a2 == IF v.ok /\ (variant = "p4b" \/ v.items # <<>>)
              THEN pushLIST(a1, gid, "vehicles_list", v.items) ELSE a1
      a3 == IF ~SomeKey(a2, "household_list") /\ dh # <<>>
              THEN pushLIST(a2, gid, "household_list", dh) ELSE a2
      a4 == IF ~SomeKey(a3, "vehicles_list") /\ dv # <<>>
              THEN pushLIST(a3, gid, "vehicles_list", dv) ELSE a3
  IN IF variant = "p3" THEN a4
     ELSE IF variant = "p4b" THEN a2
     ELSE arr

\* no customer resolved: revision p3 still writes the derived lists
DerivedLists(variant, arr, order) ==
  LET gid == OrderGid(order.id)
      dh == DerivedList(order, "intake_household_json")
      dv == DerivedList(order, "intake_vehicles_json")
  IN IF variant = "p3"
       THEN pushLIST(IF dh # <<>> THEN pushLIST(arr, gid, "household_list", dh) ELSE arr,
                     gid, "vehicles_list", dv)
     ELSE arr

\* the Order metafields built from the payload alone
OrderBatchFromPayload(variant, order) ==
  LET gid == OrderGid(order.id)
      plan == Reconciled(variant, order, "retainer_plan")
      term == Reconciled(variant, order, "retainer_term")
      dob == PropsDob(order)
      cars == PropsCars(order)
      ni(arr) == IF cars.nil THEN arr ELSE pushNI(arr, gid, "cars_count", cars)
  IN IF variant = "p4a"
       THEN << MF(gid, "retainer_plan", "single_line_text_field", plan),
               MF(gid, "retainer_term", "single_line_text_field", term),
               MF(gid, "has_bi", "boolean",
                  IF hasBI(variant, order) THEN Txt("true") ELSE Txt("false")),
               MF(gid, "dob", "date", dob),
               MF(gid, "cars_count", "number_integer", PropsCarsText(order)) >>
     ELSE IF variant = "main"
       THEN PrettyLists(pushDT(pushNI(pushBL(pushSL(pushSL(<<>>, gid, "plan", plan),
                                                    gid, "term", term),
                                             gid, "bi_info", hasBI(variant, order)),
                                      gid, "cars_count", cars),
                               gid, "dob", dob),
                        order)
     ELSE ni(pushDT(pushBL(pushSL(pushSL(<<>>, gid, "retainer_plan", plan),
                                  gid, "retainer_term", term),
                           gid, "has_bi", hasBI(variant, order)),
                    gid, "dob", dob))

\* the file references copied from the Customer's metafields (view) to the Order
FileBatch(arr, order, view) ==
  LET gid == OrderGid(order.id)
  IN pushFILE(pushFILE(pushFILE(arr, gid, "signature", view["signature"]),
                       gid, "drivers_license", view["drivers_license"]),
              gid, "car_insurance", view["car_insurance"])

\* revisions that read the Customer before writing the Order
ReadsCustomer(variant) == variant \in {"main", "p3", "p4b"}

\* mfs as handed to the Order's metafieldsSet
OrderBatch(variant, order, customerGid, view) ==
  IF ReadsCustomer(variant) /\ customerGid # NoGid
    THEN CustomerLists(variant, FileBatch(OrderBatchFromPayload(variant, order), order, view),
                       order, view)
  ELSE DerivedLists(variant, OrderBatchFromPayload(variant, order), order)

\* cmf: the Customer's last_retainer_* snapshot
SnapshotBatch(variant, order, customerGid) ==
  LET plan == Reconciled(variant, order, "retainer_plan")
      term == Reconciled(variant, order, "retainer_term")
      raw(arr, key, v) == Append(arr, MF(customerGid, key, "single_line_text_field", v))
      guarded(arr, key, v) == IF Truthy(v) THEN raw(arr, key, v) ELSE arr
      trimmed(arr, key, v) == IF Truthy(v) THEN pushSL(arr, customerGid, key, v) ELSE arr
  IN IF variant = "p4a"
       THEN raw(raw(<<>>, "last_retainer_plan", plan), "last_retainer_term", term)
     ELSE IF variant = "main"
       THEN trimmed(trimmed(<<>>, "last_retainer_plan", plan), "last_retainer_term", term)
     ELSE guarded(guarded(<<>>, "last_retainer_plan", plan), "last_retainer_term", term)

\* metafieldsSet that never replaces a value a key already holds
RECURSIVE metafieldsSetKeepsFirst(_, _)
metafieldsSetKeepsFirst(store, batch) ==
  IF batch = <<>> THEN store
  ELSE LET m == batch[1]
       IN metafieldsSetKeepsFirst(
            [store EXCEPT ![m.ownerId][m.key] = IF @.nil THEN m.value ELSE @],
            Tail(batch))

\* metafieldsSet that appends to the value a key already holds
RECURSIVE metafieldsSetAppends(_, _)
metafieldsSetAppends(store, batch) ==
  IF batch = <<>> THEN store
  ELSE LET m == batch[1]
       IN metafieldsSetAppends(
            [store EXCEPT ![m.ownerId][m.key] =
               IF @.nil THEN m.value ELSE [m.value EXCEPT !.pad = TRUE]],
            Tail(batch))

\* the remote platform's metafieldsSet: each entry sets its owner's key
RECURSIVE metafieldsSet(_, _)
metafieldsSet(store, batch) ==
  IF batch = <<>> THEN store
  ELSE LET m == batch[1]
       IN metafieldsSet([store EXCEPT ![m.ownerId][m.key] = m.value], Tail(batch))

\* a query that is not restricted to the email: the first customer there is
customersByEmailAny(custs, q) ==
  LET hits == { c \in CustIds : ~custs[c].email.nil }
  IN IF hits = {} THEN NoGid ELSE CustomerGid(CHOOSE c \in hits : TRUE)

\* the remote platform's customers(first:1, query:"email:<q>")
customersByEmail(custs, q) ==
  LET hits == { c \in CustIds : ~custs[c].email.nil /\ custs[c].email = q }
  IN IF hits = {} THEN NoGid ELSE CustomerGid(CHOOSE c \in hits : TRUE)

---------------------------------------------------------------------------
(* The order-webhook handler *)

WhVariants == {"main", "p3", "p4a", "p4b", "p4c"}

Methods == {"GET", "POST", "PUT", "OPTIONS"}

Call(op, target, q) == [op |-> op, target |-> target, q |-> q]

WhIdle ==
  [pc |-> "idle", method |-> "", header |-> NoHeader, raw |-> NoBody,
   verified |-> FALSE, parsed |-> FALSE,
   customerGid |-> NoGid, resolved |-> FALSE, view |-> NoFields,
   calls |-> <<>>, failed |-> FALSE, status |-> 0, text |-> "",
   brokeAt |-> 0, brokeMf |-> <<>>, sent |-> <<>>]

\* the order of the invocation in progress, once parsed
WhOrder == ParsedOrder(wh.raw)

\* res.status(code).send(text) / .end()
Respond(w, code, text) == [w EXCEPT !.pc = "done", !.status = code, !.text = text]

\* an exception no handler code catches: the platform answers 500
Uncaught(w) == Respond(w, 500, "uncaught")

\* the handler's catch block
Catch(variant, w) ==
  Respond([w EXCEPT !.failed = TRUE], IF variant = "p4a" THEN 500 ELSE 200, "error")

\* history: the first metafield write of the invocation that failed is the
\* call just issued; the remote metafields at that moment are kept
Broke(w) ==
  IF w.brokeAt # 0 THEN w
  ELSE [w EXCEPT !.brokeAt = Len(w.calls), !.brokeMf = mf]

\* lines 90-94 of order-webhook.js: the method checks, then the raw body is read
WhReceive(method, raw, header) ==
  /\ wh.pc = "idle"
  /\ Len(whLog) < MaxDeliveries
  /\ method # "POST" => (raw = NoBody /\ header = NoHeader)
  /\ LET w == [WhIdle EXCEPT !.method = method, !.header = header, !.raw = raw]
     IN wh' = IF method = "GET" THEN Respond(w, 200, "ok")
              ELSE IF method # "POST" THEN Respond(w, 405, "")
              ELSE [w EXCEPT !.pc = "verify"]
  /\ UNCHANGED <<SECRET, whVariant, mf, customers, whLog, whSnap, remote0, intakeVars>>

\* line 95: if (!verify(req, raw)) return res.status(401).send('invalid hmac')
WhVerify ==
  /\ wh.pc = "verify"
  /\ LET r == Verify(whVariant, SECRET, wh.header, wh.raw)
     IN wh' = IF r = "ok" THEN [wh EXCEPT !.pc = "parse", !.verified = TRUE]
              ELSE IF r = "reject" THEN Respond(wh, 401, "invalid hmac")
              ELSE Uncaught(wh)
  /\ UNCHANGED <<SECRET, whVariant, mf, customers, whLog, whSnap, remote0, intakeVars>>

\* line 97: const order = JSON.parse(raw.toString('utf8')), before the try
WhParse ==
  /\ wh.pc = "parse"
  /\ wh' = IF wh.raw.json
             THEN [wh EXCEPT !.parsed = TRUE,
                             !.pc = IF ReadsCustomer(whVariant) THEN "resolve"
                                    ELSE "worder"]
           ELSE Uncaught(wh)
  /\ UNCHANGED <<SECRET, whVariant, mf, customers, whLog, whSnap, remote0, intakeVars>>

\* the query text of the email fallback
LookupQuery(variant, email) == IF variant = "p4a" THEN email ELSE ToLowerCase(email)

AfterResolve(variant, gid) ==
  IF ~ReadsCustomer(variant) THEN "wsnap"
  ELSE IF gid # NoGid THEN "read" ELSE "worder"

\* line 149: if (!customerGid && order.email)
NeedsLookupMutant(order) == Truthy(order.email)

NeedsLookup(order) == order.cust = NoCust /\ Truthy(order.email)

\* lines 148-152: the customer from the payload's id, else looked up by email
WhResolve ==
  /\ wh.pc = "resolve"
  /\ IF NeedsLookup(WhOrder)
       THEN \E out \in {"ok", "throw"} :
              LET q == LookupQuery(whVariant, WhOrder.email)
                  gid == customersByEmail(customers, q)
                  w == [wh EXCEPT !.calls = Append(@, Call("customersByEmail", NoGid, q))]
              IN wh' = IF out = "ok"
                         THEN [w EXCEPT !.customerGid = gid, !.resolved = TRUE,
                                        !.pc = AfterResolve(whVariant, gid)]
                       ELSE Catch(whVariant, w)
     ELSE LET gid == IF WhOrder.cust # NoCust THEN CustomerGid(WhOrder.cust) ELSE NoGid
          IN wh' = [wh EXCEPT !.customerGid = gid, !.resolved = TRUE,
                              !.pc = AfterResolve(whVariant, gid)]
  /\ UNCHANGED <<SECRET, whVariant, mf, customers, whLog, whSnap, remote0, intakeVars>>

\* lines 154-166: the Customer's retainer metafields are read
WhReadCustomer ==
  /\ wh.pc = "read"
  /\ \E out \in {"ok", "throw"} :
       LET w == [wh EXCEPT !.calls = Append(@, Call("customerRead", wh.customerGid, Nil))]
       IN wh' = IF out = "ok"
                  THEN [w EXCEPT !.view = mf[wh.customerGid], !.pc = "worder"]
                ELSE Catch(whVariant, w)
  /\ UNCHANGED <<SECRET, whVariant, mf, customers, whLog, whSnap, remote0, intakeVars>>

\* lines 169-173: the Order's metafields are written; userErrors are only logged
WhWriteOrder ==
  /\ wh.pc = "worder"
  /\ LET order == WhOrder
         batch == OrderBatch(whVariant, order, wh.customerGid, wh.view)
         next == IF ReadsCustomer(whVariant) THEN "wsnap" ELSE "resolve"
     IN IF batch = <<>>
          THEN /\ wh' = [wh EXCEPT !.pc = next]
               /\ mf' = mf
        ELSE \E out \in {"ok", "userErrors", "throw"} :
               LET w == [wh EXCEPT !.calls = Append(@, Call("metafieldsSet",
                                       OrderGid(order.id), Nil)),
                                   !.sent = Append(@, batch)]
               IN /\ wh' = IF out = "ok" THEN [w EXCEPT !.pc = next]
                           ELSE IF out = "userErrors"
                             THEN [Broke(w) EXCEPT !.pc = next, !.failed = TRUE]
                           ELSE Catch(whVariant, Broke(w))
                  /\ mf' = IF out = "ok" THEN metafieldsSet(mf, batch) ELSE mf
  /\ UNCHANGED <<SECRET, whVariant, customers, whLog, whSnap, remote0, intakeVars>>

\* lines 175-183: the Customer's snapshot is written and the delivery acknowledged
WhWriteSnapshot ==
  /\ wh.pc = "wsnap"
  /\ LET batch == SnapshotBatch(whVariant, WhOrder, wh.customerGid)
     IN IF wh.customerGid = NoGid \/ batch = <<>>
          THEN /\ wh' = Respond(wh, 200, "ok")
               /\ mf' = mf
        ELSE \E out \in {"ok", "userErrors", "throw"} :
               LET w == [wh EXCEPT !.calls = Append(@, Call("metafieldsSet",
                                       wh.customerGid, Nil)),
                                   !.sent = Append(@, batch)]
               IN /\ wh' = IF out = "ok" THEN Respond(w, 200, "ok")
                           ELSE IF out = "userErrors"
                             THEN Respond([Broke(w) EXCEPT !.failed = TRUE], 200, "ok")
                           ELSE Catch(whVariant, Broke(w))
                  /\ mf' = IF out = "ok" THEN metafieldsSet(mf, batch) ELSE mf
  /\ UNCHANGED <<SECRET, whVariant, customers, whLog, whSnap, remote0, intakeVars>>

\* the invocation is over; a processed delivery enters the history
WhFinish ==
  /\ wh.pc = "done"
  /\ wh' = WhIdle
  /\ IF wh.parsed
       THEN /\ whLog' = Append(whLog, [delivery |-> wh.raw.delivery, clean |-> ~wh.failed])
            /\ whSnap' = mf
     ELSE UNCHANGED <<whLog, whSnap>>
  /\ UNCHANGED <<SECRET, whVariant, mf, customers, remote0, intakeVars>>

---------------------------------------------------------------------------
(* The remote platform's customers and files *)

Customer(email, state) == [email |-> email, state |-> state]
NoCustomer == Customer(Nil, "")

\* the id the platform gives the next customer it creates (NoCust: none left)
CustOrder == <<"c1", "c2">>
FreshCust(custs) ==
  LET free == { i \in 1..Len(CustOrder) : custs[CustOrder[i]].email.nil }
  IN IF free = {} THEN NoCust
     ELSE CustOrder[CHOOSE i \in free : \A j \in free : i <= j]

\* a platform that accepts a second customer with an email
EmailTakenNever(custs, email) == FALSE

\* the platform refuses customerCreate for an email a customer has ("email
\* already exists")
EmailTaken(custs, email) ==
  \E c \in CustIds : ~custs[c].email.nil /\ custs[c].email = email

\* the id of the n-th File record the platform creates
FileId(n) == Txt("file" \o ToString(n))

\* the remote state as a whole
Remote == [mf |-> mf, customers |-> customers, fileCount |-> fileCount]

---------------------------------------------------------------------------
(* intake-upsert: the request *)

\* submissions answered in one behaviour
MaxSubmissions == 2

UpVariants == {"sf", "adm", "p1", "p2"}

\* revisions that create the customer through the Storefront API and take
\* three data-URLs; the others create through the Admin API and take the
\* signature only
ViaStorefront(variant) == variant \in {"sf", "p2"}

\* a data-URL field: "" absent, "png" data:image/png..., "pdf"
\* data:application/pdf..., "bad" text that is no data-URL
Intake(email, phoneOk, password, insurer, has_bi, plan, sig, dl, ci) ==
  [email |-> email, phoneOk |-> phoneOk, password |-> password,
   insurer |-> insurer, has_bi |-> has_bi, cars_count |-> Nil, dob |-> Nil,
   retainer_plan |-> plan,
   urls |-> [signature |-> sig, drivers_license |-> dl, car_insurance |-> ci]]

\* the request bodies submitted, by name; dob and cars_count are absent
\* where not given
IntakeTable ==
  [ returning |-> [Intake(Txt("u"), TRUE, Nil, Txt("I"), TRUE, Txt("A"), "", "", "")
                     EXCEPT !.dob = Txt("2000-01-01"), !.cars_count = Txt("3")],
    shouting  |-> [Intake([Upper("u") EXCEPT !.pad = TRUE], TRUE, Nil, Padded(""), FALSE, Nil,
                          "png", "pdf", "")
                     EXCEPT !.dob = Txt("13/2024"), !.cars_count = Txt("abc")],
    newcomer  |-> [Intake(Txt("n"), TRUE, Txt("pw"), Txt("I"), TRUE, Txt("A"), "png", "", "bad")
                     EXCEPT !.dob = Padded("2000-01-01"), !.cars_count = Txt("3.7")],
    nopass    |-> Intake(Upper("n"), TRUE, Nil, Nil, FALSE, Txt("A"), "", "", ""),
    nophone   |-> Intake(Txt("u"), FALSE, Nil, Nil, FALSE, Nil, "pdf", "", ""),
    malformed |-> Intake(Txt("x"), TRUE, Txt("pw"), Nil, FALSE, Nil, "", "", ""),
    noemail   |-> Intake(Padded(""), TRUE, Txt("pw"), Nil, FALSE, Nil, "png", "", "") ]

Submissions == DOMAIN IntakeTable

\* the email taken as submitted
IntakeEmailAsSent(p) == ToStr(p.email)

\* String(p.email || '').trim().toLowerCase()
IntakeEmail(p) == ToLowerCase(Trim(ToStr(p.email)))

\* /^[^\s@]+@[^\s@]+\.[^\s@]+$/ : "u" and "n" stand for well-formed addresses
isEmail(s) == ~s.nil /\ ~s.pad /\ s.core \in {"u", "n"}

\* the request passes the handler's validation of the email and the phone
ValidRequest(variant, p) ==
  IF ViaStorefront(variant) THEN isEmail(IntakeEmail(p)) /\ p.phoneOk
  ELSE Truthy(IntakeEmail(p))

\* the password the revision creates the customer with (Empty: none)
Password(variant, p) ==
  IF variant = "p2" /\ ~Truthy(p.password) THEN Txt("derived")
  ELSE Trim(ToStr(p.password))

\* the data-URL is one the revision's upload accepts
AcceptsUrlMutant(variant, url) == url # ""

AcceptsUrl(variant, url) ==
  IF ViaStorefront(variant) THEN url \in {"png", "pdf"} ELSE url = "png"

\* the file fields the revision uploads, in order
UploadSlots(variant) ==
  IF ViaStorefront(variant) THEN <<"signature", "drivers_license", "car_insurance">>
  ELSE <<"signature">>

\* the first slot after `from` whose field is set (0: none)
NextUpload(variant, p, from) ==
  LET slots == UploadSlots(variant)
      set == { i \in (from + 1)..Len(slots) : p.urls[slots[i]] # "" }
  IN IF set = {} THEN 0 ELSE CHOOSE i \in set : \A j \in set : i <= j

\* the metafield key a revision stores an uploaded file under
FileKey(variant, slot) ==
  IF variant = "adm" THEN "retainer_signature" ELSE slot

\* mf: the Customer metafields the revision writes
IntakeBatch(variant, p, id, files) ==
  LET sl(arr, key, v) == Append(arr, MF(id, key, "single_line_text_field", v))
      opt(arr, key, v) == IF NonBlankValue(v) THEN sl(arr, key, v) ELSE arr
      dt(arr) == IF NonBlankValue(p.dob) /\ isYMD(p.dob)
                   THEN Append(arr, MF(id, "dob", "date", p.dob))
                 ELSE arr
      rawdt(arr) == Append(arr, MF(id, "dob", "date", OrElse(p.dob, Empty)))
      bi(arr) == pushBL(arr, id, "has_bi", p.has_bi)
      cars(arr) == Append(arr, MF(id, "cars_count", "number_integer",
                                  Coalesce(p.cars_count, Txt("0"))))
      file(arr, slot) == IF Truthy(files[slot])
                           THEN Append(arr, MF(id, FileKey(variant, slot),
                                               "file_reference", files[slot]))
                         ELSE arr
      filesOf(arr) == file(file(file(arr, "signature"), "drivers_license"), "car_insurance")
  IN IF variant = "adm"
       THEN filesOf(sl(cars(bi(sl(rawdt(<<>>), "insurer", OrElse(p.insurer, Empty)))),
                       "last_retainer_plan", OrElse(p.retainer_plan, Empty)))
     ELSE IF variant = "p1"
       THEN filesOf(opt(cars(bi(opt(dt(<<>>), "insurer", p.insurer))),
                        "last_retainer_plan", p.retainer_plan))
     ELSE filesOf(opt(opt(cars(bi(opt(dt(<<>>), "insurer", p.insurer))),
                          "last_retainer_plan", p.retainer_plan),
                      "current_retainer_plan", p.retainer_plan))

---------------------------------------------------------------------------
(* intake-upsert: the handler *)

UpIdle ==
  [pc |-> "idle", method |-> "", sub |-> "", email |-> Nil,
   looked |-> FALSE, found |-> NoGid, id |-> NoGid, state |-> "",
   slot |-> 0, files |-> [k \in FileKeys |-> Nil],
   calls |-> <<>>, failed |-> FALSE, userErrors |-> FALSE, status |-> 0, ok |-> FALSE,
   pending |-> FALSE, overlapped |-> FALSE, created |-> FALSE, duplicate |-> FALSE,
   sent |-> <<>>]

\* the body of the submission in progress
UpBody == IntakeTable[up.sub]

\* res.status(code).json({ ok, ... }) / .end()
Answer(u, code, ok) == [u EXCEPT !.pc = "done", !.status = code, !.ok = ok]

\* the handler's catch block, and the answers to userErrors: 200 with ok:false
UpCatch(u) == Answer([u EXCEPT !.failed = TRUE], 200, FALSE)

\* a remote call failed and the handler goes on
Failed(u) == [u EXCEPT !.failed = TRUE]

\* a customer or metafield write reported userErrors
Reported(u) == [u EXCEPT !.userErrors = TRUE]

\* an awaited call is issued and completes; overlapped records that a call
\* started earlier was still outstanding
UpCalled(u, op, target) ==
  [u EXCEPT !.calls = Append(@, Call(op, target, u.email)),
            !.overlapped = @ \/ u.pending]

\* a call is started and not awaited
UpStarted(u, op, target) == [UpCalled(u, op, target) EXCEPT !.pending = TRUE]

\* if (!id) create, else update
AfterLookupMutant(gid) == "create"

AfterLookup(gid) == IF gid = NoGid THEN "create" ELSE "update"

\* the customer step is over: on to the first upload, or to the write
AfterCustomer(u) ==
  LET n == NextUpload(upVariant, IntakeTable[u.sub], 0)
  IN [u EXCEPT !.slot = n, !.pc = IF n = 0 THEN "write" ELSE "upload"]

\* cors, the method checks, the validation of email and phone
UpReceive(method, sub) ==
  /\ up.pc = "idle"
  /\ Len(upLog) < MaxSubmissions
  /\ LET u == [UpIdle EXCEPT !.method = method, !.sub = sub]
     IN up' = IF method = "OPTIONS" THEN Answer(u, 204, FALSE)
              ELSE IF method # "POST" THEN Answer(u, 405, FALSE)
              ELSE IF ~ValidRequest(upVariant, IntakeTable[sub]) THEN Answer(u, 400, FALSE)
              ELSE [u EXCEPT !.pc = "lookup", !.email = IntakeEmail(IntakeTable[sub])]
  /\ UNCHANGED <<mf, customers, fileCount, SFTOK, upVariant, upLog, upSnap, webhookVars>>

\* 1) find the customer by email; a failed lookup (ACCESS_DENIED or any other
\* error) is answered 200 with ok:false
UpLookup ==
  /\ up.pc = "lookup"
  /\ \E out \in {"ok", "throw"} :
       LET u == UpCalled(up, "customersByEmail", NoGid)
           gid == customersByEmail(customers, up.email)
       IN up' = IF out = "throw" THEN UpCatch(u)
                ELSE [u EXCEPT !.looked = TRUE, !.found = gid, !.id = gid,
                               !.state = IF gid = NoGid THEN "" ELSE customers[gid[2]].state,
                               !.pc = AfterLookup(gid)]
  /\ UNCHANGED <<mf, customers, fileCount, SFTOK, upVariant, upLog, upSnap, webhookVars>>

\* if (!id): the customer is created, through the Storefront API (with a
\* password, then looked up again) or through the Admin API
UpCreate ==
  /\ up.pc = "create"
  /\ IF upVariant = "sf" /\ ~Truthy(Password(upVariant, UpBody))
       THEN up' = Answer(up, 400, FALSE) /\ customers' = customers
     ELSE IF ViaStorefront(upVariant) /\ SFTOK = ""
       THEN up' = Answer(up, 500, FALSE) /\ customers' = customers
     ELSE \E out \in {"ok", "userErrors", "throw"} :
            LET u == UpCalled(up, "customerCreate", NoGid)
                c == FreshCust(customers)
                taken == EmailTaken(customers, up.email)
            IN /\ out = "ok" => (c # NoCust /\ ~taken)
               /\ IF out # "ok"
                    THEN /\ up' = UpCatch(IF out = "userErrors"
                                            THEN Reported([u EXCEPT !.duplicate = taken])
                                          ELSE u)
                         /\ customers' = customers
                  ELSE IF ViaStorefront(upVariant)
                    THEN /\ customers' = [customers EXCEPT ![c] = Customer(up.email, "ENABLED")]
                         /\ up' = [u EXCEPT !.pc = "lookup2", !.created = TRUE]
                  ELSE /\ customers' = [customers EXCEPT ![c] = Customer(up.email, "DISABLED")]
                       /\ up' = AfterCustomer([u EXCEPT !.id = CustomerGid(c),
                                                        !.state = "DISABLED",
                                                        !.created = TRUE])
  /\ UNCHANGED <<mf, fileCount, SFTOK, upVariant, upLog, upSnap, webhookVars>>

\* the Admin id of the customer created through the Storefront API is looked
\* up; the customer may not be visible yet
UpLookupAgain ==
  /\ up.pc = "lookup2"
  /\ \E out \in {"ok", "none", "throw"} :
       LET u == UpCalled(up, "customersByEmail", NoGid)
           gid == IF out = "ok" THEN customersByEmail(customers, up.email) ELSE NoGid
       IN up' = IF out = "throw" \/ gid = NoGid THEN UpCatch(u)
                ELSE [u EXCEPT !.id = gid, !.state = customers[gid[2]].state,
                               !.pc = "update"]
  /\ UNCHANGED <<mf, customers, fileCount, SFTOK, upVariant, upLog, upSnap, webhookVars>>

\* customerUpdate against the id; revision p2 repeats it without the phone
\* when every error is about the phone
UpUpdate ==
  /\ up.pc = "update"
  /\ \E out \in {"ok", "userErrors", "throw", "phoneThenOk", "phoneThenErrors"} :
       LET u == UpCalled(up, "customerUpdate", up.id)
           again == UpCalled(u, "customerUpdate", up.id)
       IN /\ out \in {"phoneThenOk", "phoneThenErrors"} => upVariant = "p2"
          /\ up' = IF out = "ok" THEN AfterCustomer(u)
                   ELSE IF out = "phoneThenOk" THEN AfterCustomer(Failed(Reported(again)))
                   ELSE IF out = "phoneThenErrors" THEN UpCatch(Reported(again))
                   ELSE IF out = "userErrors" THEN UpCatch(Reported(u))
                   ELSE UpCatch(u)
  /\ UNCHANGED <<mf, customers, fileCount, SFTOK, upVariant, upLog, upSnap, webhookVars>>

\* the upload of the next data-URL: a field the revision's upload does not
\* accept costs no call; the Admin revisions swallow an exception of the
\* upload, the Storefront revisions let it reach the handler's catch
UpUpload ==
  /\ up.pc = "upload"
  /\ LET key == UploadSlots(upVariant)[up.slot]
         n == NextUpload(upVariant, UpBody, up.slot)
         on(u) == [u EXCEPT !.slot = n, !.pc = IF n = 0 THEN "write" ELSE "upload"]
     IN IF ~AcceptsUrl(upVariant, UpBody.urls[key])
          THEN up' = on(up) /\ fileCount' = fileCount
        ELSE \E out \in {"created", "failed", "throw"} :
               LET u == UpCalled(up, "fileCreate", NoGid)
               IN /\ up' = IF out = "created"
                             THEN on([u EXCEPT !.files[key] = FileId(fileCount + 1)])
                           ELSE IF out = "throw" /\ ViaStorefront(upVariant) THEN UpCatch(u)
                           ELSE on(Failed(u))
                  /\ fileCount' = IF out = "created" THEN fileCount + 1 ELSE fileCount
  /\ UNCHANGED <<mf, customers, SFTOK, upVariant, upLog, upSnap, webhookVars>>

\* a handler that invites only the customer it created itself
AfterWriteInvitesCreated(variant, u) ==
  IF variant = "adm"
    THEN IF u.state # "ENABLED" /\ u.created THEN [u EXCEPT !.pc = "invite"]
         ELSE Answer(u, 200, TRUE)
  ELSE IF variant = "p1" THEN [u EXCEPT !.pc = "view"]
  ELSE Answer(u, 200, TRUE)

\* what follows the metafield write
AfterWrite(variant, u) ==
  IF variant = "adm"
    THEN IF u.state # "ENABLED" THEN [u EXCEPT !.pc = "invite"] ELSE Answer(u, 200, TRUE)
  ELSE IF variant = "p1" THEN [u EXCEPT !.pc = "view"]
  ELSE Answer(u, 200, TRUE)

\* the Customer's metafields are written; revision adm does not look at the
\* userErrors; revision p1 then sends the invite without awaiting it
UpWrite ==
  /\ up.pc = "write"
  /\ LET batch == IntakeBatch(upVariant, UpBody, up.id, up.files)
     IN \E out \in {"ok", "userErrors", "throw"} :
          LET w == [UpCalled(up, "metafieldsSet", up.id) EXCEPT !.sent = Append(@, batch)]
              goesOn == out = "ok" \/ (out = "userErrors" /\ upVariant = "adm")
              invites == goesOn /\ upVariant = "p1" /\ up.state # "ENABLED"
              u == IF invites THEN UpStarted(w, "customerSendInvite", up.id) ELSE w
          IN /\ up' = IF out = "ok" THEN AfterWrite(upVariant, u)
                      ELSE IF goesOn THEN AfterWrite(upVariant, Failed(Reported(u)))
                      ELSE IF out = "userErrors" THEN UpCatch(Reported(u))
                      ELSE UpCatch(u)
             /\ mf' = IF out = "ok" THEN metafieldsSet(mf, batch) ELSE mf
  /\ UNCHANGED <<customers, fileCount, SFTOK, upVariant, upLog, upSnap, webhookVars>>

\* revision p1: the invite that was started without await completes, at any
\* moment before the invocation is over, or never
UpInviteSettles ==
  /\ up.pending
  /\ \E out \in {"ok", "failed"} :
       /\ up' = [up EXCEPT !.pending = FALSE, !.failed = @ \/ out = "failed"]
       /\ customers' = IF out = "ok" THEN [customers EXCEPT ![up.id[2]].state = "INVITED"]
                       ELSE customers
  /\ UNCHANGED <<mf, fileCount, SFTOK, upVariant, upLog, upSnap, webhookVars>>

\* revision adm: await customerSendInvite when the account is not enabled
UpInvite ==
  /\ up.pc = "invite"
  /\ \E out \in {"ok", "throw"} :
       LET u == UpCalled(up, "customerSendInvite", up.id)
       IN /\ up' = IF out = "ok" THEN Answer(u, 200, TRUE) ELSE UpCatch(u)
          /\ customers' = IF out = "ok" THEN [customers EXCEPT ![up.id[2]].state = "INVITED"]
                          ELSE customers
  /\ UNCHANGED <<mf, fileCount, SFTOK, upVariant, upLog, upSnap, webhookVars>>

\* revision p1: the Customer is read back before the answer
UpView ==
  /\ up.pc = "view"
  /\ \E out \in {"ok", "throw"} :
       LET u == UpCalled(up, "customerView", up.id)
       IN up' = IF out = "ok" THEN Answer(u, 200, TRUE) ELSE UpCatch(u)
  /\ UNCHANGED <<mf, customers, fileCount, SFTOK, upVariant, upLog, upSnap, webhookVars>>

\* the invocation is over; a submission that issued a call enters the history
UpFinish ==
  /\ up.pc = "done"
  /\ up' = UpIdle
  /\ IF up.calls # <<>>
       THEN /\ upLog' = Append(upLog, [sub |-> up.sub, ok |-> up.ok,
                                       clean |-> ~up.failed, created |-> up.created])
            /\ upSnap' = Remote
     ELSE UNCHANGED <<upLog, upSnap>>
  /\ UNCHANGED <<mf, customers, fileCount, SFTOK, upVariant, webhookVars>>

\* two invocations run at the same time: at an await the platform goes on
\* with the other invocation
RaceSwitch ==
  /\ up' = parked
  /\ parked' = up
  /\ up # parked
  /\ UNCHANGED <<mf, customers, fileCount, SFTOK, upVariant, upLog, upSnap,
                 SECRET, whVariant, wh, whLog, whSnap, remote0, recordVars, cr, ul>>

\* the submissions of the two invocations: the same form sent twice
RaceSubmissions == {"newcomer"}

\* the request of one of the two invocations arrives
RaceReceive(sub) ==
  /\ sub \in RaceSubmissions
  /\ UpReceive("POST", sub)

---------------------------------------------------------------------------
(* The record handler: "rec" src/api/retainer/record.js, "p0"              *)
(* src/unnamed/part_000, and its store (one table, one bucket)             *)

\* record requests received in one behaviour
MaxRequests == 2

RcVariants == {"rec", "p0"}

\* two clients whose requests may overlap
Clients == {1, 2}

\* the columns of a stored row the handler derives from the body
RecordBody(email, full_name, cars_count, signature_url, data) ==
  [email |-> email, full_name |-> full_name, cars_count |-> cars_count,
   signature_url |-> signature_url, signature_data_url |-> data]

\* the request bodies (and GET queries, of which only the email counts), by
\* name; signature_data_url is "" absent, "png" data:image/png..., "bad"
\* another text
RecordTable ==
  [ signed  |-> RecordBody(Txt("u"), Txt("F1"), Txt("3"), Nil, "png"),
    sparse  |-> RecordBody([Upper("u") EXCEPT !.pad = TRUE], Nil, Txt("abc"), Nil, ""),
    linked  |-> RecordBody(Txt("u"), Empty, Txt("3.7"), Txt("http"), "bad"),
    other   |-> RecordBody(Txt("n"), Txt("F2"), Nil, Nil, "bad"),
    nobody  |-> RecordBody(Padded(""), Txt("F1"), Nil, Nil, "png") ]

RecordBodies == DOMAIN RecordTable

\* String(p.email||'').trim().toLowerCase()
RecordEmail(p) == ToLowerCase(Trim(ToStr(p.email)))

\* if (!email) in record.js, if (!isEmail(email)) in part_000
ValidRecordEmail(variant, email) ==
  IF variant = "rec" THEN Truthy(email) ELSE isEmail(email)

\* let signature_url = p.signature_url || null (record.js only)
GivenSignatureUrl(variant, p) ==
  IF variant = "rec" THEN OrElse(p.signature_url, Nil) ELSE Nil

\* the handler calls the signature upload
WantsUpload(variant, p) ==
  IF variant = "rec"
    THEN ~Truthy(GivenSignatureUrl(variant, p)) /\ p.signature_data_url # ""
  ELSE p.signature_data_url # ""

\* dataUrl.startsWith('data:image/png')
IsPng(url) == url = "png"

\* the suffixes Math.random() gives a path in part_000
Randoms == {"r1", "r2"}

\* keyPath: signatures/<email>/<Date.now()>.png in record.js,
\* <email>/<Date.now()>-<random>.png in part_000
keyPath(variant, email, now, random) ==
  IF variant = "rec" THEN "signatures/" \o email.core \o "/" \o ToString(now)
  ELSE email.core \o "/" \o ToString(now) \o "-" \o random

\* getPublicUrl(path)
ObjectUrl(path) == Txt("sig:" \o path)

\* the objects of the bucket at a path
ObjectsAt(bucket, path) == { o \in bucket : o.path = path }

\* upload(path, buf, { upsert }): record.js overwrites the object of the
\* path, part_000 does not
UploadUpserts(variant) == variant = "rec"

\* cars_count of the row
RowCars(variant, p) ==
  IF variant = "rec"
    THEN Txt(IF IsFinite(Number(p.cars_count)) THEN Number(p.cars_count) ELSE "0")
  ELSE Txt(Number(OrElse(p.cars_count, Txt("0"))))

\* record / row: the row handed to upsert
RecordRow(variant, p, signature_url) ==
  [email |-> RecordEmail(p),
   full_name |-> IF variant = "rec" THEN Coalesce(p.full_name, Nil)
                 ELSE OrElse(p.full_name, Nil),
   cars_count |-> RowCars(variant, p),
   signature_url |-> OrElse(signature_url, Nil)]

RowsFor(table, email) == { r \in table : r.email = email }

\* an upsert that keeps the stored value of a column the new row leaves null
upsertMerging(table, row) ==
  IF RowsFor(table, row.email) = {} THEN table \cup {row}
  ELSE { IF r.email # row.email THEN r
         ELSE [c \in DOMAIN r |-> IF c \in DOMAIN row /\ ~row[c].nil THEN row[c] ELSE r[c]]
         : r \in table }

\* an insert without conflict handling
upsertInserting(table, row) == table \cup {row}

\* .upsert(row, { onConflict:'email' }): the row with this email takes the
\* value of every column the new row has, or the row is inserted
upsert(table, row) ==
  IF RowsFor(table, row.email) = {} THEN table \cup {row}
  ELSE { IF r.email # row.email THEN r
         ELSE [c \in DOMAIN r |-> IF c \in DOMAIN row THEN row[c] ELSE r[c]]
         : r \in table }

RcIdle ==
  [pc |-> "idle", method |-> "", body |-> "", email |-> Nil, signature_url |-> Nil,
   prev |-> {}, stored |-> {}, seq |-> 0, id |-> 0, overlap |-> {}, path |-> "",
   status |-> 0, ok |-> FALSE]

\* res.status(code).json({ ok, ... }) / .end()
RcAnswer(r, code, ok) == [r EXCEPT !.pc = "done", !.status = code, !.ok = ok]

\* the handler's catch block: 500 in record.js, 200 in part_000
RcCatch(variant, r) == RcAnswer(r, IF variant = "rec" THEN 500 ELSE 200, FALSE)

\* the requests of the other clients that are in progress
InFlight(c) == { rc[d].id : d \in { e \in Clients \ {c} : rc[e].pc \notin {"idle", "done"} } }

\* what follows the validation of a PUT
RcAfterValidation(variant, r, p) ==
  IF WantsUpload(variant, p) /\ IsPng(p.signature_data_url)
    THEN [r EXCEPT !.pc = "upload"]
  ELSE [r EXCEPT !.pc = "upsert", !.signature_url = GivenSignatureUrl(variant, p)]

\* cors, the method checks, the validation of the email
RcReceive(c, method, body) ==
  /\ rc[c].pc = "idle"
  /\ rcServed < MaxRequests
  /\ rcServed' = rcServed + 1
  /\ LET p == RecordTable[body]
         email == RecordEmail(p)
         r == [RcIdle EXCEPT !.method = method, !.body = body,
                             !.id = rcServed + 1, !.overlap = InFlight(c)]
     IN rc' = [rc EXCEPT ![c] =
          IF method = "OPTIONS" THEN RcAnswer(r, 204, FALSE)
          ELSE IF method \notin {"GET", "PUT"} THEN RcAnswer(r, 405, FALSE)
          ELSE IF ~ValidRecordEmail(rcVariant, email) THEN RcAnswer(r, 400, FALSE)
          ELSE IF method = "GET" THEN [r EXCEPT !.pc = "select", !.email = email]
          ELSE RcAfterValidation(rcVariant, [r EXCEPT !.email = email], p)]
  /\ UNCHANGED <<rcVariant, rdb, shopVars, cr>>

\* saveSignature / uploadSignature: the PNG is uploaded to the bucket under
\* a path made of the email and the clock (the tick of the last upload or
\* the next one); the image of a request is named by the request's id
RcUpload(c) ==
  /\ rc[c].pc = "upload"
  /\ \E out \in {"ok", "error", "throw"}, now \in {rdb.clock, rdb.clock + 1},
        random \in Randoms :
       LET path == keyPath(rcVariant, rc[c].email, now, random)
           taken == ObjectsAt(rdb.bucket, path) # {}
           stored == out = "ok" /\ (UploadUpserts(rcVariant) \/ ~taken)
       IN /\ now > 0
          /\ rcVariant = "rec" => random = "r1"
          /\ out # "ok" => (now = rdb.clock + 1 /\ random = "r1")
          /\ rc' = [rc EXCEPT ![c] =
               IF out = "throw" THEN RcCatch(rcVariant, @)
               ELSE [@ EXCEPT !.pc = "upsert",
                              !.path = IF stored THEN path ELSE "",
                              !.signature_url = IF stored THEN ObjectUrl(path) ELSE Nil]]
          /\ rdb' = IF stored
                      THEN [rdb EXCEPT !.clock = now,
                              !.bucket = (@ \ ObjectsAt(@, path))
                                           \cup {[path |-> path, image |-> rc[c].id]}]
                    ELSE rdb
  /\ UNCHANGED <<rcVariant, rcServed, shopVars, cr>>

\* the row is built and upserted, and the answer sent
RcUpsert(c) ==
  /\ rc[c].pc = "upsert"
  /\ \E out \in {"ok", "error", "throw"} :
       LET row == RecordRow(rcVariant, RecordTable[rc[c].body], rc[c].signature_url)
           table == upsert(rdb.table, row)
       IN /\ rc' = [rc EXCEPT ![c] =
               IF out = "throw" THEN RcCatch(rcVariant, @)
               ELSE IF out = "error" THEN RcAnswer(@, 200, FALSE)
               ELSE RcAnswer([@ EXCEPT !.prev = RowsFor(rdb.table, row.email),
                                       !.stored = RowsFor(table, row.email),
                                       !.seq = rdb.writes + 1], 200, TRUE)]
          /\ rdb' = IF out = "ok" THEN [rdb EXCEPT !.table = table, !.writes = @ + 1]
                    ELSE rdb
  /\ UNCHANGED <<rcVariant, rcServed, shopVars, cr>>

\* GET: the row of the email is selected
RcSelect(c) ==
  /\ rc[c].pc = "select"
  /\ \E out \in {"ok", "error", "throw"} :
       rc' = [rc EXCEPT ![c] =
         IF out = "throw" THEN RcCatch(rcVariant, @)
         ELSE IF out = "error" THEN RcAnswer(@, 200, FALSE)
         ELSE RcAnswer([@ EXCEPT !.stored = RowsFor(rdb.table, rc[c].email)], 200, TRUE)]
  /\ UNCHANGED <<rcVariant, rdb, rcServed, shopVars, cr>>

\* the invocation is over
RcFinish(c) ==
  /\ rc[c].pc = "done"
  /\ rc' = [rc EXCEPT ![c] = RcIdle]
  /\ UNCHANGED <<rcVariant, rdb, rcServed, shopVars, cr>>

\* the store before any request
NoRecords == [table |-> {}, bucket |-> {}, clock |-> 0, writes |-> 0]

---------------------------------------------------------------------------
(* CORS: the cors function of each handler and the handler's entry        *)

\* the handlers with a cors function: the four revisions of intake-upsert,
\* profile-update.js, customer-create.js, record.js and part_000
CorsHandlers == {"sf", "adm", "p1", "p2", "profile-update", "customer-create", "rec", "p0"}

\* values of the ALLOWED_ORIGINS variable, split at the commas
AllowedOriginsEnvs ==
  { <<>>, <<Txt("a")>>, <<Padded("a"), Padded("")>>, <<Txt("a"), Txt("b")>>, <<Txt("b")>> }

\* .split(',').map(s => s.trim()).filter(Boolean)
ORIGINS(env) == { Trim(env[i]) : i \in { j \in 1..Len(env) : Truthy(Trim(env[j])) } }

\* the Origin header of a request; Nil is a request without one
OriginHeaders == {Nil, Txt("a"), Txt("b"), Txt("x"), Upper("a")}

\* a cors that echoes every origin
corsMirroring(handler, env, origin) == origin

\* cors(res, origin): the value of Access-Control-Allow-Origin, Nil when the
\* header is not set
cors(handler, env, origin) ==
  IF handler = "p0" THEN OrElse(origin, Txt("*"))
  ELSE IF handler = "rec"
    THEN IF Truthy(origin) /\ (ORIGINS(env) = {} \/ origin \in ORIGINS(env)) THEN origin
         ELSE IF ~Truthy(origin) THEN Txt("*")
         ELSE Nil
  ELSE IF Truthy(origin) /\ origin \in ORIGINS(env) THEN origin ELSE Nil

\* the handlers whose entry is modelled: those with a cors function and the
\* five revisions of order-webhook, which has none
EntryHandlers == CorsHandlers \cup {"main", "p3", "p4a", "p4b", "p4c"}

\* Access-Control-Allow-Methods as cors sets it ("" when the handler sets none)
AllowMethods(handler) ==
  IF handler \notin CorsHandlers THEN ""
  ELSE IF handler \in {"rec", "p0"} THEN "GET, PUT, OPTIONS"
  ELSE "POST, OPTIONS"

\* Access-Control-Allow-Headers as cors sets it
AllowHeaders(handler) ==
  IF handler \notin CorsHandlers THEN ""
  ELSE IF handler = "p0" THEN "Content-Type, Authorization, X-Requested-With"
  ELSE "Content-Type"

\* an entry that answers 204 to OPTIONS whatever the handler
EntryAnswerPermissive(handler, method) ==
  IF method = "OPTIONS" THEN 204 ELSE 0

\* the answer of the handler's method checks that come before the body is
\* read; 0 when the handler goes on
EntryAnswer(handler, method) ==
  IF handler \in CorsHandlers
    THEN IF method = "OPTIONS" THEN 204
         ELSE IF handler \in {"rec", "p0"} THEN 0
         ELSE IF method # "POST" THEN 405 ELSE 0
  ELSE IF method = "GET" THEN 200
  ELSE IF method # "POST" THEN 405 ELSE 0

CrIdle(handler, env) ==
  [handler |-> handler, env |-> env, pc |-> "idle", method |-> "", origin |-> Nil,
   acao |-> Nil, methods |-> "", headers |-> "", read |-> FALSE, calls |-> 0,
   status |-> 0]

\* the handler's first two statements: cors(res, req.headers.origin), and
\* the answer 204 to OPTIONS
CorsEnter(method, origin) ==
  /\ cr.pc = "idle"
  /\ LET answer == EntryAnswer(cr.handler, method)
     IN cr' = [cr EXCEPT !.method = method, !.origin = origin,
                         !.acao = IF cr.handler \in CorsHandlers
                                    THEN cors(cr.handler, cr.env, origin) ELSE Nil,
                         !.methods = AllowMethods(cr.handler),
                         !.headers = AllowHeaders(cr.handler),
                         !.pc = IF answer # 0 THEN "done" ELSE "handling",
                         !.status = answer]
  /\ UNCHANGED <<recordVars, shopVars>>

\* the rest of the handler reads the body, issues its remote calls and
\* answers; it sets no Access-Control header
CorsRespond ==
  /\ cr.pc = "handling"
  /\ \E code \in {200, 400, 405}, n \in {0, 1} :
       cr' = [cr EXCEPT !.pc = "done", !.status = code, !.read = TRUE, !.calls = n]
  /\ UNCHANGED <<recordVars, shopVars>>

\* the invocation is over
CorsFinish ==
  /\ cr.pc = "done"
  /\ cr' = CrIdle(cr.handler, cr.env)
  /\ UNCHANGED <<recordVars, shopVars>>

\* no handler entered
NoCors == CrIdle("", <<>>)

---------------------------------------------------------------------------
(* The upload functions: the staged-upload handshake                       *)

\* the upload function of each revision: uploadDataUrlToFiles of
\* intake-upsert.js ("sf"), part_002 ("p2") and profile-update.js ("pu"),
\* uploadSignatureToFiles of intake-upsert.js ("adm") and part_001 ("p1")
UploadFns == {"sf", "adm", "p1", "p2", "pu"}

\* the data-URLs handed to the function
DataUrls == {"", "png", "pdf", "bad"}

\* dataUrl.startsWith('data:') or startsWith('data:image/png')
UploadAccepts(fn, url) == IF fn = "pu" THEN url \in {"png", "pdf"} ELSE AcceptsUrl(fn, url)

\* if (!up.ok) return ...: the function looks at the answer of the binary POST
ChecksPost(fn) == fn # "adm"

UlIdle(fn) ==
  [fn |-> fn, pc |-> "idle", url |-> "", target |-> FALSE, posted |-> FALSE,
   committed |-> FALSE, fileId |-> Nil, ref |-> Nil, calls |-> <<>>, thrown |-> FALSE]

\* the function returns without a file id
UlReturnsNull(u) == [u EXCEPT !.pc = "use", !.fileId = Nil]

\* a call of the function throws: no file id reaches the batch
UlThrows(u) == [UlReturnsNull(u) EXCEPT !.thrown = TRUE]

\* the function is called with a data-URL; the prefix test comes first
UlCall(url) ==
  /\ ul.pc = "idle"
  /\ ul' = IF UploadAccepts(ul.fn, url) THEN [ul EXCEPT !.url = url, !.pc = "stage"]
           ELSE UlReturnsNull([ul EXCEPT !.url = url])
  /\ UNCHANGED <<platformVars, recordVars, cr>>

\* 1) stagedUploadsCreate: the upload target is requested
UlStage ==
  /\ ul.pc = "stage"
  /\ \E out \in {"target", "none", "throw"} :
       LET u == [ul EXCEPT !.calls = Append(@, "stagedUploadsCreate")]
       IN ul' = IF out = "target" THEN [u EXCEPT !.target = TRUE, !.pc = "post"]
                ELSE IF out = "none" THEN UlReturnsNull(u)
                ELSE UlThrows(u)
  /\ UNCHANGED <<platformVars, recordVars, cr>>

\* 2) the binary is POSTed to the target url
UlPost ==
  /\ ul.pc = "post"
  /\ \E out \in {"accepted", "rejected", "throw"} :
       LET u == [ul EXCEPT !.calls = Append(@, "stagedPost")]
       IN ul' = IF out = "accepted" THEN [u EXCEPT !.posted = TRUE, !.pc = "commit"]
                ELSE IF out = "throw" THEN UlThrows(u)
                ELSE IF ChecksPost(ul.fn) THEN UlReturnsNull(u)
                ELSE [u EXCEPT !.pc = "commit"]
  /\ UNCHANGED <<platformVars, recordVars, cr>>

\* 3) fileCreate: the File record is committed and its id returned
UlCommit ==
  /\ ul.pc = "commit"
  /\ \E out \in {"id", "none", "throw"} :
       LET u == [ul EXCEPT !.calls = Append(@, "fileCreate")]
       IN ul' = IF out = "id" THEN [u EXCEPT !.committed = TRUE, !.fileId = FileId(1),
                                             !.pc = "use"]
                ELSE IF out = "none" THEN UlReturnsNull(u)
                ELSE UlThrows(u)
  /\ UNCHANGED <<platformVars, recordVars, cr>>

\* the handler puts the file reference in its batch: if (sig.fileId) mf.push
UlUse ==
  /\ ul.pc = "use"
  /\ ul' = [ul EXCEPT !.pc = "done", !.ref = IF Truthy(ul.fileId) THEN ul.fileId ELSE Nil]
  /\ UNCHANGED <<platformVars, recordVars, cr>>

\* the call is over
UlFinish ==
  /\ ul.pc = "done"
  /\ ul' = UlIdle(ul.fn)
  /\ UNCHANGED <<platformVars, recordVars, cr>>

\* no upload function called
NoUpload == UlIdle("")

---------------------------------------------------------------------------
(* The profile-update handler, src/api/retainer/profile-update.js          *)

\* the data-URL fields of the body, in the order of their uploads
ProfileSlots == <<"signature", "drivers_license", "car_insurance">>

\* the next field after slot `from` that has a data-URL, 0 when none
NextProfileUpload(p, from) ==
  LET set == { i \in (from + 1)..Len(ProfileSlots) : p.urls[ProfileSlots[i]] # "" }
  IN IF set = {} THEN 0 ELSE CHOOSE i \in set : \A j \in set : i <= j

\* Number.isFinite(p.cars_count): a JSON number
IsFiniteNumber(v) == ~v.nil /\ ~v.pad /\ v.core \in Decimals

\* the metafields profile-update builds, every one with ownerId: id
ProfileBatch(p, id, files) ==
  LET opt(arr, key, v) == IF NonBlankValue(v)
                            THEN Append(arr, MF(id, key, "single_line_text_field", v))
                          ELSE arr
      bi(arr) == pushBL(arr, id, "has_bi", p.has_bi)
      cars(arr) == IF IsFiniteNumber(p.cars_count)
                     THEN Append(arr, MF(id, "cars_count", "number_integer", p.cars_count))
                   ELSE arr
      dt(arr) == IF NonBlankValue(p.dob) /\ isYMD(p.dob)
                   THEN Append(arr, MF(id, "dob", "date", p.dob))
                 ELSE arr
      file(arr, slot) == IF Truthy(files[slot])
                           THEN Append(arr, MF(id, slot, "file_reference", files[slot]))
                         ELSE arr
  IN file(file(file(dt(cars(bi(opt(<<>>, "insurer", p.insurer)))),
                    "signature"), "drivers_license"), "car_insurance")

\* the invocation goes on to its next upload, or to the metafields
AfterProfileLookup(u, from) ==
  LET n == NextProfileUpload(IntakeTable[u.sub], from)
  IN [u EXCEPT !.slot = n, !.pc = IF n = 0 THEN "pu_write" ELSE "pu_upload"]

\* cors, the method checks, the validation of the email
PuReceive(method, sub) ==
  /\ upVariant = "pu"
  /\ up.pc = "idle"
  /\ Len(upLog) < MaxSubmissions
  /\ LET u == [UpIdle EXCEPT !.method = method, !.sub = sub]
     IN up' = IF method = "OPTIONS" THEN Answer(u, 204, FALSE)
              ELSE IF method # "POST" THEN Answer(u, 405, FALSE)
              ELSE IF ~isEmail(IntakeEmail(IntakeTable[sub])) THEN Answer(u, 400, FALSE)
              ELSE [u EXCEPT !.pc = "pu_lookup", !.email = IntakeEmail(IntakeTable[sub])]
  /\ UNCHANGED <<mf, customers, fileCount, SFTOK, upVariant, upLog, upSnap, webhookVars>>

\* find customer: an unknown email is answered ok:false 'customer not found'
PuLookup ==
  /\ up.pc = "pu_lookup"
  /\ \E out \in {"ok", "throw"} :
       LET u == UpCalled(up, "customersByEmail", NoGid)
           gid == customersByEmail(customers, up.email)
       IN up' = IF out = "throw" THEN UpCatch(u)
                ELSE IF gid = NoGid
                  THEN Answer([u EXCEPT !.looked = TRUE], 200, FALSE)
                ELSE AfterProfileLookup([u EXCEPT !.looked = TRUE, !.found = gid, !.id = gid,
                                                  !.state = customers[gid[2]].state], 0)
  /\ UNCHANGED <<mf, customers, fileCount, SFTOK, upVariant, upLog, upSnap, webhookVars>>

\* optional file replacements: a field that is no data-URL costs no call, a
\* failed upload leaves its file id null, an exception reaches the catch
PuUpload ==
  /\ up.pc = "pu_upload"
  /\ LET key == ProfileSlots[up.slot]
     IN IF ~UploadAccepts("pu", UpBody.urls[key])
          THEN up' = AfterProfileLookup(up, up.slot) /\ fileCount' = fileCount
        ELSE \E out \in {"created", "failed", "throw"} :
               LET u == UpCalled(up, "fileCreate", NoGid)
               IN /\ up' = IF out = "created"
                             THEN AfterProfileLookup(
                                    [u EXCEPT !.files[key] = FileId(fileCount + 1)], up.slot)
                           ELSE IF out = "throw" THEN UpCatch(u)
                           ELSE AfterProfileLookup(Failed(u), up.slot)
                  /\ fileCount' = IF out = "created" THEN fileCount + 1 ELSE fileCount
  /\ UNCHANGED <<mf, customers, SFTOK, upVariant, upLog, upSnap, webhookVars>>

\* if (mf.length) metafieldsSet; userErrors are answered ok:false
PuWrite ==
  /\ up.pc = "pu_write"
  /\ LET batch == ProfileBatch(UpBody, up.id, up.files)
     IN IF batch = <<>>
          THEN up' = Answer(up, 200, TRUE) /\ mf' = mf
        ELSE \E out \in {"ok", "userErrors", "throw"} :
               LET u == [UpCalled(up, "metafieldsSet", up.id)
                           EXCEPT !.sent = Append(@, batch)]
               IN /\ up' = IF out = "ok" THEN Answer(u, 200, TRUE)
                           ELSE IF out = "userErrors" THEN UpCatch(Reported(u))
                           ELSE UpCatch(u)
                  /\ mf' = IF out = "ok" THEN metafieldsSet(mf, batch) ELSE mf
  /\ UNCHANGED <<customers, fileCount, SFTOK, upVariant, upLog, upSnap, webhookVars>>

\* a request reaches the handler the deployment serves
OwnerReceive(method, sub) ==
  IF upVariant = "pu" THEN PuReceive(method, sub) ELSE UpReceive(method, sub)

---------------------------------------------------------------------------
(* Specification of the intake-upsert deployment *)

\* a deployed revision, its Storefront token set or unset (the Admin
\* revisions do not read it), and the account state of the customer the
\* shop already has (the Storefront revisions do not use it)
UpDeployments ==
  { d \in UpVariants \X {"", "t1"} \X {"ENABLED", "DISABLED"} :
      IF ViaStorefront(d[1]) THEN d[3] = "ENABLED" ELSE d[2] = "t1" }

InitIntake ==
  /\ \E d \in UpDeployments :
       /\ upVariant = d[1]
       /\ SFTOK = d[2]
       /\ customers = [c \in CustIds |-> IF c = "c1" THEN Customer(Txt("u"), d[3])
                                        ELSE NoCustomer]
  /\ up = UpIdle
  /\ mf = [o \in Owners |-> NoFields]
  /\ fileCount = 0
  /\ upLog = <<>>
  /\ upSnap = Remote
  /\ SECRET = "" /\ whVariant = "" /\ wh = WhIdle
  /\ whLog = <<>> /\ whSnap = mf /\ remote0 = mf
  /\ rcVariant = "" /\ rc = [c \in Clients |-> RcIdle] /\ rdb = NoRecords /\ rcServed = 0
  /\ cr = NoCors
  /\ ul = NoUpload
  /\ parked = UpIdle

NextIntake ==
  \/ \E m \in {"POST", "OPTIONS", "GET"}, sub \in Submissions : UpReceive(m, sub)
  \/ UpLookup
  \/ UpCreate
  \/ UpLookupAgain
  \/ UpUpdate
  \/ UpUpload
  \/ UpWrite
  \/ UpInviteSettles
  \/ UpInvite
  \/ UpView
  \/ UpFinish

SpecIntake == InitIntake /\ [][NextIntake]_vars

---------------------------------------------------------------------------
(* Specification of the webhook deployment *)

\* the file references the Customer holds before any delivery: a signature
\* and a licence, no insurance card
StoredFiles ==
  { [NoFields EXCEPT !["signature"] = Txt("f1"), !["drivers_license"] = Txt("f2")] }

Init ==
  /\ SECRET \in {"", "s1"}
  /\ whVariant \in WhVariants
  /\ wh = WhIdle
  /\ \E files \in StoredFiles :
       mf = [o \in Owners |-> IF o = CustomerGid("c1") THEN files ELSE NoFields]
  /\ customers = [c \in CustIds |-> IF c = "c1" THEN Customer(Txt("u"), "ENABLED")
                                       ELSE NoCustomer]
  /\ fileCount = 0
  /\ whLog = <<>>
  /\ whSnap = mf
  /\ remote0 = mf
  /\ SFTOK = ""
  /\ upVariant = ""
  /\ up = UpIdle
  /\ upLog = <<>>
  /\ upSnap = Remote
  /\ rcVariant = "" /\ rc = [c \in Clients |-> RcIdle] /\ rdb = NoRecords /\ rcServed = 0
  /\ cr = NoCors
  /\ ul = NoUpload
  /\ parked = UpIdle

Next ==
  \/ \E m \in Methods, raw \in Bodies : \E h \in Headers(raw) :
       /\ (h # HmacBase64("s1", raw) => raw.delivery \in {"", "collide"})
       /\ WhReceive(m, raw, h)
  \/ WhVerify
  \/ WhParse
  \/ WhResolve
  \/ WhReadCustomer
  \/ WhWriteOrder
  \/ WhWriteSnapshot
  \/ WhFinish

Spec == Init /\ [][Next]_vars

---------------------------------------------------------------------------
(* Specification of the webhook deployment over a shop whose Customer has *)
(* stored lists                                                           *)

\* the household_list and vehicles_list a Customer has: none, a list, an
\* empty list, a list of blank entries, a text that is no list
StoredLists ==
  { <<Nil, Nil>>, <<Txt("[a]"), Txt("[]")>>, <<Txt("[ ]"), Txt("[b]")>>, <<Txt("a"), Nil>> }

InitLists ==
  /\ SECRET = "s1"
  /\ whVariant \in WhVariants
  /\ wh = WhIdle
  /\ \E files \in StoredFiles, lists \in StoredLists :
       mf = [o \in Owners |-> IF o = CustomerGid("c1")
                                THEN [files EXCEPT !["household_list"] = lists[1],
                                                   !["vehicles_list"] = lists[2]]
                              ELSE NoFields]
  /\ customers = [c \in CustIds |-> IF c = "c1" THEN Customer(Txt("u"), "ENABLED")
                                       ELSE NoCustomer]
  /\ fileCount = 0
  /\ whLog = <<>>
  /\ whSnap = mf
  /\ remote0 = mf
  /\ SFTOK = "" /\ upVariant = "" /\ up = UpIdle /\ parked = UpIdle
  /\ upLog = <<>>
  /\ upSnap = Remote
  /\ rcVariant = "" /\ rc = [c \in Clients |-> RcIdle] /\ rdb = NoRecords /\ rcServed = 0
  /\ cr = NoCors
  /\ ul = NoUpload

SpecLists == InitLists /\ [][Next]_vars

---------------------------------------------------------------------------
(* Specification of the record deployment *)

\* the shop is not involved
InitShopIdle ==
  /\ SECRET = "" /\ whVariant = "" /\ wh = WhIdle
  /\ mf = [o \in Owners |-> NoFields]
  /\ customers = [c \in CustIds |-> NoCustomer]
  /\ fileCount = 0
  /\ whLog = <<>> /\ whSnap = mf /\ remote0 = mf
  /\ SFTOK = "" /\ upVariant = "" /\ up = UpIdle /\ parked = UpIdle
  /\ upLog = <<>> /\ upSnap = Remote

InitRecord ==
  /\ InitShopIdle
  /\ rcVariant \in RcVariants
  /\ rc = [c \in Clients |-> RcIdle]
  /\ rdb = NoRecords
  /\ rcServed = 0
  /\ cr = NoCors
  /\ ul = NoUpload

NextRecord ==
  \/ \E c \in Clients, m \in {"PUT", "GET", "OPTIONS", "POST"}, body \in RecordBodies :
       RcReceive(c, m, body)
  \/ \E c \in Clients : RcUpload(c)
  \/ \E c \in Clients : RcUpsert(c)
  \/ \E c \in Clients : RcSelect(c)
  \/ \E c \in Clients : RcFinish(c)

SpecRecord == InitRecord /\ [][NextRecord]_vars

---------------------------------------------------------------------------
(* Specification of the handlers' CORS answers *)

InitCors ==
  /\ InitShopIdle
  /\ rcVariant = "" /\ rc = [c \in Clients |-> RcIdle] /\ rdb = NoRecords /\ rcServed = 0
  /\ \E handler \in EntryHandlers, env \in AllowedOriginsEnvs : cr = CrIdle(handler, env)
  /\ ul = NoUpload

NextCors ==
  \/ \E m \in {"OPTIONS", "POST", "PUT", "GET"}, origin \in OriginHeaders : CorsEnter(m, origin)
  \/ CorsRespond
  \/ CorsFinish

SpecCors == InitCors /\ [][NextCors]_vars

---------------------------------------------------------------------------
(* Specification of two concurrent intake-upsert invocations *)

\* a configured deployment and a shop without customers
InitRace ==
  /\ upVariant \in UpVariants
  /\ SFTOK = "t1"
  /\ customers = [c \in CustIds |-> NoCustomer]
  /\ up = UpIdle /\ parked = UpIdle
  /\ mf = [o \in Owners |-> NoFields]
  /\ fileCount = 0
  /\ upLog = <<>>
  /\ upSnap = Remote
  /\ SECRET = "" /\ whVariant = "" /\ wh = WhIdle
  /\ whLog = <<>> /\ whSnap = mf /\ remote0 = mf
  /\ rcVariant = "" /\ rc = [c \in Clients |-> RcIdle] /\ rdb = NoRecords /\ rcServed = 0
  /\ cr = NoCors
  /\ ul = NoUpload

NextRace ==
  \/ \E sub \in RaceSubmissions : RaceReceive(sub)
  \/ RaceSwitch
  \/ UpLookup
  \/ UpCreate
  \/ UpLookupAgain
  \/ UpUpdate
  \/ UpUpload
  \/ UpWrite
  \/ UpInviteSettles
  \/ UpInvite
  \/ UpView

SpecRace == InitRace /\ [][NextRace]_vars

---------------------------------------------------------------------------
(* Specification of the handlers that write a Customer's metafields:      *)
(* intake-upsert in its revisions, and profile-update                     *)

OwnerDeployments ==
  UpDeployments \cup { <<"pu", "", state>> : state \in {"ENABLED", "DISABLED"} }

InitOwner ==
  /\ \E d \in OwnerDeployments :
       /\ upVariant = d[1]
       /\ SFTOK = d[2]
       /\ customers = [c \in CustIds |-> IF c = "c1" THEN Customer(Txt("u"), d[3])
                                        ELSE NoCustomer]
  /\ up = UpIdle /\ parked = UpIdle
  /\ mf = [o \in Owners |-> NoFields]
  /\ fileCount = 0
  /\ upLog = <<>>
  /\ upSnap = Remote
  /\ SECRET = "" /\ whVariant = "" /\ wh = WhIdle
  /\ whLog = <<>> /\ whSnap = mf /\ remote0 = mf
  /\ rcVariant = "" /\ rc = [c \in Clients |-> RcIdle] /\ rdb = NoRecords /\ rcServed = 0
  /\ cr = NoCors
  /\ ul = NoUpload

NextOwner ==
  \/ \E m \in {"POST", "OPTIONS", "GET"}, sub \in Submissions : OwnerReceive(m, sub)
  \/ UpLookup
  \/ UpCreate
  \/ UpLookupAgain
  \/ UpUpdate
  \/ UpUpload
  \/ UpWrite
  \/ UpInviteSettles
  \/ UpInvite
  \/ UpView
  \/ PuLookup
  \/ PuUpload
  \/ PuWrite
  \/ UpFinish

SpecOwner == InitOwner /\ [][NextOwner]_vars

---------------------------------------------------------------------------
(* Specification of the upload functions *)

InitUpload ==
  /\ InitShopIdle
  /\ rcVariant = "" /\ rc = [c \in Clients |-> RcIdle] /\ rdb = NoRecords /\ rcServed = 0
  /\ cr = NoCors
  /\ \E fn \in UploadFns : ul = UlIdle(fn)

NextUploads ==
  \/ \E url \in DataUrls : UlCall(url)
  \/ UlStage
  \/ UlPost
  \/ UlCommit
  \/ UlUse
  \/ UlFinish

SpecUpload == InitUpload /\ [][NextUploads]_vars

---------------------------------------------------------------------------
(* Properties of the order-webhook handler *)

\* the invocation in progress has issued a remote call of this kind
HasCall(op) == \E i \in 1..Len(wh.calls) : wh.calls[i].op = op

\* ... of this kind against this owner
HasCallTo(op, target) ==
  \E i \in 1..Len(wh.calls) : wh.calls[i].op = op /\ wh.calls[i].target = target

\* ... a read or a write against some Customer
TouchesCustomer ==
  \E i \in 1..Len(wh.calls) :
    /\ wh.calls[i].op \in {"customerRead", "metafieldsSet"}
    /\ wh.calls[i].target[1] = "Customer"

\* the request's header is not the digest of its body under the secret
SignatureFails ==
  SECRET = "" \/ wh.header = NoHeader \/ wh.header # HmacBase64(SECRET, wh.raw)

\* C1: for every POST, verification comes first: nothing is parsed and no
\* remote call is issued unless verification succeeded, and a POST whose
\* secret is unset or whose header is missing or does not match is answered
\* 401 without any remote call.
C1_VerifyFirst ==
  /\ (wh.parsed \/ wh.calls # <<>>) => wh.verified
  /\ (wh.method = "POST" /\ wh.pc = "done" /\ SignatureFails)
       => (wh.status = 401 /\ wh.calls = <<>> /\ ~wh.parsed)

\* C2: with the shared secret set, a POST whose header differs from the
\* digest of the raw body (in value or in length) is answered 401, and a POST
\* whose header equals the digest passes verification and is processed.
C2_MismatchRejected ==
  (SECRET # "" /\ wh.method = "POST" /\ wh.pc \notin {"idle", "verify"})
    => IF wh.header = HmacBase64(SECRET, wh.raw)
         THEN wh.verified
       ELSE wh.pc = "done" /\ wh.status = 401

\* C3: a POST that passed verification is answered 200 whatever fails while
\* it is processed.
C3_VerifiedAnswered200 ==
  (wh.verified /\ wh.pc = "done") => wh.status = 200

\* the metafield key under which a revision stores the Order's plan or term
OrderKey(variant, key) ==
  IF variant # "main" THEN key
  ELSE IF key = "retainer_plan" THEN "plan" ELSE "term"

SnapshotKey(key) == IF key = "retainer_plan" THEN "last_retainer_plan" ELSE "last_retainer_term"

\* the last delivery the history records, and whether it went through
\* without a failed call
LastDelivery == whLog[Len(whLog)]
JustProcessedCleanly == wh.pc = "idle" /\ whLog # <<>> /\ LastDelivery.clean

\* C4: when a key has a non-blank line-item property, the Order metafield and
\* the Customer snapshot hold the property's value, also when a note attribute
\* of that key exists; the attribute's value is held only when no non-blank
\* property of the key exists.
C4_PropertyWins ==
  JustProcessedCleanly =>
    LET order == OrderTable[LastDelivery.delivery]
        props == pullProps(order.props)
        attrs == pullAttrs(order.attrs)
    IN \A key \in {"retainer_plan", "retainer_term"} :
         LET expected == IF NonBlankValue(props[key]) THEN props[key] ELSE attrs[key]
         IN NonBlankValue(expected) =>
              /\ Trim(mf[OrderGid(order.id)][OrderKey(whVariant, key)]) = Trim(expected)
              /\ order.cust # NoCust =>
                   Trim(mf[CustomerGid(order.cust)][SnapshotKey(key)]) = Trim(expected)

\* C5: the customer is the payload's customer id when there is one; the
\* lookup by email is issued exactly when the payload has no customer id and
\* has an email; and an invocation that resolved no customer issues no
\* Customer read or write and still writes the Order's metafields.
C5_CustomerResolution ==
  wh.parsed =>
    /\ HasCall("customersByEmail") => (WhOrder.cust = NoCust /\ Truthy(WhOrder.email))
    /\ wh.resolved =>
         /\ WhOrder.cust # NoCust => wh.customerGid = CustomerGid(WhOrder.cust)
         /\ (WhOrder.cust = NoCust /\ Truthy(WhOrder.email)) => HasCall("customersByEmail")
    /\ wh.customerGid = NoGid => ~TouchesCustomer
    /\ (wh.resolved /\ wh.customerGid = NoGid /\ wh.pc = "done" /\ wh.text = "ok")
         => HasCallTo("metafieldsSet", OrderGid(WhOrder.id))

\* C5's case: a delivery without customer id whose lookup by email found no
\* one was acknowledged after the Order's metafields were written
C5_Witness ==
  /\ wh.pc = "done" /\ wh.text = "ok" /\ ~wh.failed
  /\ wh.resolved /\ wh.customerGid = NoGid
  /\ HasCall("customersByEmail")
  /\ HasCallTo("metafieldsSet", OrderGid(WhOrder.id))
  /\ mf[OrderGid(WhOrder.id)] # remote0[OrderGid(WhOrder.id)]

\* C6: while a delivery is processed again right after it was processed
\* without failure, and when that is over, the Orders' and the Customer's
\* metafields are as the first processing left them.
C6_Idempotent ==
  (whLog # <<>> /\ LastDelivery.clean /\ wh.parsed
     /\ wh.raw.delivery = LastDelivery.delivery)
    => mf = whSnap

\* C6's case: the second processing of a delivery has issued both writes and
\* was acknowledged, the first processing having changed the metafields
C6_Witness ==
  /\ whLog # <<>> /\ LastDelivery.clean
  /\ wh.parsed /\ wh.raw.delivery = LastDelivery.delivery
  /\ wh.pc = "done" /\ wh.text = "ok" /\ ~wh.failed
  /\ HasCallTo("metafieldsSet", OrderGid(WhOrder.id))
  /\ HasCallTo("metafieldsSet", CustomerGid("c1"))
  /\ whSnap # remote0

\* the customer an invocation for this order resolves when no call fails
ResolvedCustomer(variant, order) ==
  IF NeedsLookup(order)
    THEN customersByEmail(customers, LookupQuery(variant, order.email))
  ELSE IF order.cust # NoCust THEN CustomerGid(order.cust) ELSE NoGid

\* the remote metafields after one delivery is processed without failure
\* starting from store
Processed(store, d) ==
  LET order == OrderTable[d]
      gid == ResolvedCustomer(whVariant, order)
      view == IF gid = NoGid THEN NoFields ELSE store[gid]
      written == metafieldsSet(store, OrderBatch(whVariant, order, gid, view))
  IN IF gid = NoGid THEN written
     ELSE metafieldsSet(written, SnapshotBatch(whVariant, order, gid))

\* the value a batch sets for a key of an owner (Nil when it sets none)
Written(batch, ownerId, key) ==
  LET hits == { i \in 1..Len(batch) : batch[i].ownerId = ownerId /\ batch[i].key = key }
  IN IF hits = {} THEN Nil ELSE batch[CHOOSE i \in hits : \A j \in hits : j <= i].value

\* two deliveries for two different orders of one customer have been
\* processed, each without a failed call
TwoOrdersOneCustomer ==
  /\ wh.pc = "idle" /\ Len(whLog) = 2
  /\ whLog[1].clean /\ whLog[2].clean
  /\ OrderTable[whLog[1].delivery].id # OrderTable[whLog[2].delivery].id
  /\ ResolvedCustomer(whVariant, OrderTable[whLog[1].delivery]) # NoGid
  /\ ResolvedCustomer(whVariant, OrderTable[whLog[1].delivery])
       = ResolvedCustomer(whVariant, OrderTable[whLog[2].delivery])

\* C7 as stated: after two deliveries for two different orders of one
\* customer, the remote metafields, the Customer's last_retainer_plan and
\* last_retainer_term included, are what processing the two in the other
\* order gives.
C7_OrderIndependent ==
  TwoOrdersOneCustomer =>
    mf = Processed(Processed(remote0, whLog[2].delivery), whLog[1].delivery)

\* C7 as amended: after two deliveries for two different orders of one
\* customer, each Order's metafields are what processing its delivery alone
\* gives, whichever came first; the Customer's last_retainer_plan and
\* last_retainer_term are the values the later delivery's snapshot sets, and
\* for a key it does not set, the earlier delivery's; the Customer's other
\* metafields are untouched.
C7_LastWriteWins ==
  TwoOrdersOneCustomer =>
    LET first == OrderTable[whLog[1].delivery]
        later == OrderTable[whLog[2].delivery]
        cust == ResolvedCustomer(whVariant, later)
        snaps == {"last_retainer_plan", "last_retainer_term"}
    IN /\ mf[OrderGid(first.id)] = Processed(remote0, whLog[1].delivery)[OrderGid(first.id)]
       /\ mf[OrderGid(later.id)] = Processed(remote0, whLog[2].delivery)[OrderGid(later.id)]
       /\ \A key \in snaps :
            LET v2 == Written(SnapshotBatch(whVariant, later, cust), cust, key)
                v1 == Written(SnapshotBatch(whVariant, first, cust), cust, key)
            IN mf[cust][key] = IF ~v2.nil THEN v2
                               ELSE IF ~v1.nil THEN v1 ELSE remote0[cust][key]
       /\ \A key \in Keys \ snaps : mf[cust][key] = remote0[cust][key]

\* C7's case: two such deliveries were processed and the other order would
\* have left other metafields
C7_Witness ==
  /\ TwoOrdersOneCustomer
  /\ mf # Processed(Processed(remote0, whLog[2].delivery), whLog[1].delivery)

\* C10, for the webhook's email fallback: the lookup is issued with the
\* trimmed, lower-cased email of the order, so an email that differs from the
\* stored one only in letter case or surrounding whitespace resolves the
\* same customer.
C10_NormalizedEmail ==
  wh.parsed =>
    LET email == ToLowerCase(Trim(WhOrder.email))
    IN /\ \A i \in 1..Len(wh.calls) :
            wh.calls[i].op = "customersByEmail" => wh.calls[i].q = email
       /\ (wh.resolved /\ NeedsLookup(WhOrder))
            => wh.customerGid = customersByEmail(customers, email)

---------------------------------------------------------------------------
(* Properties of the intake-upsert handler *)

UpHasCall(op) == \E i \in 1..Len(up.calls) : up.calls[i].op = op

UpHasCallTo(op, target) ==
  \E i \in 1..Len(up.calls) : up.calls[i].op = op /\ up.calls[i].target = target

\* the customers whose email, trimmed and lower-cased, is this one
CustomersFor(email) ==
  { c \in CustIds : ~customers[c].email.nil
                      /\ ToLowerCase(Trim(customers[c].email)) = email }

\* C8: a customer-create call is issued only after the lookup by the
\* normalized email returned no customer; when the lookup returned a
\* customer, no create is issued, every customer-update goes to that
\* customer's id, and the invocation gets past the customer step only with
\* such an update issued.
C8_CreateOnlyWhenAbsent ==
  /\ \A i \in 1..Len(up.calls) :
       up.calls[i].op = "customersByEmail"
         => up.calls[i].q = ToLowerCase(Trim(ToStr(IntakeTable[up.sub].email)))
  /\ UpHasCall("customerCreate") => (up.looked /\ up.found = NoGid)
  /\ (up.looked /\ up.found # NoGid) =>
       /\ ~UpHasCall("customerCreate")
       /\ \A i \in 1..Len(up.calls) :
            up.calls[i].op = "customerUpdate" => up.calls[i].target = up.found
       /\ (up.pc \in {"upload", "write", "invite", "view"} \/ (up.pc = "done" /\ up.ok))
            => UpHasCallTo("customerUpdate", up.found)

\* C8's case: a submission for an existing customer was answered ok:true
\* after the update of that customer
C8_Witness ==
  /\ up.pc = "done" /\ up.ok
  /\ up.looked /\ up.found # NoGid
  /\ UpHasCallTo("customerUpdate", up.found)
  /\ UpHasCallTo("metafieldsSet", up.found)

\* the submission in progress repeats the one answered just before, and
\* both are answered ok:true without a failed remote call
RepeatedSubmission ==
  /\ upLog # <<>> /\ upLog[Len(upLog)].sub = up.sub
  /\ upLog[Len(upLog)].ok /\ upLog[Len(upLog)].clean
  /\ up.pc = "done" /\ up.status = 200 /\ up.ok /\ ~up.failed

\* C9 as stated: when the same body is submitted twice in succession, the
\* remote state after the second submission (the customers, the metafield
\* values and the file references) is the state after the first.
C9_SameFinalState ==
  RepeatedSubmission =>
    /\ Cardinality(CustomersFor(up.email)) = 1
    /\ \A c \in CustIds : customers[c].email = upSnap.customers[c].email
    /\ mf = upSnap.mf

\* C9 as amended: when the same body is submitted twice in succession and
\* no remote call fails, there is still exactly one customer for the email,
\* no customer was added, and every metafield that is not a file reference
\* has the value the first submission left; the file reference of a
\* data-URL the revision uploads is the id of a File the second submission
\* created, every other file reference is as the first submission left it.
C9_SameStateButFiles ==
  RepeatedSubmission =>
    LET refs == FileKeys \cup {"retainer_signature"}
        created == { FileId(n) : n \in (upSnap.fileCount + 1)..fileCount }
        slots == UploadSlots(upVariant)
        uploaded == { FileKey(upVariant, slots[i]) : i \in
                        { j \in 1..Len(slots) :
                            AcceptsUrl(upVariant, IntakeTable[up.sub].urls[slots[j]]) } }
    IN /\ Cardinality(CustomersFor(up.email)) = 1
       /\ CustomersFor(up.email) = { up.id[2] }
       /\ { c \in CustIds : ~customers[c].email.nil }
            = { c \in CustIds : ~upSnap.customers[c].email.nil }
       /\ \A o \in Owners, k \in Keys :
            IF o = up.id /\ k \in uploaded
              THEN mf[o][k] \in created /\ mf[o][k] # upSnap.mf[o][k]
            ELSE mf[o][k] = upSnap.mf[o][k]

\* C9's case: the second of two identical submissions with a signature was
\* answered ok:true and the Customer's signature now refers to another File
C9_Witness ==
  /\ RepeatedSubmission
  /\ IntakeTable[up.sub].urls["signature"] = "png"
  /\ \E k \in {"signature", "retainer_signature"} :
       /\ ~upSnap.mf[up.id][k].nil
       /\ mf[up.id][k] # upSnap.mf[up.id][k]

---------------------------------------------------------------------------
(* Properties of the metafield batches *)

\* the batch the intake-upsert invocation is about to send
UpBatch == IntakeBatch(upVariant, UpBody, up.id, up.files)

\* the Order batch the webhook invocation is about to send
WhBatch == OrderBatch(whVariant, WhOrder, wh.customerGid, wh.view)

\* every entry of this type in the batch satisfies Ok
AllOfType(batch, type, Ok(_)) ==
  \A i \in 1..Len(batch) : batch[i].type = type => Ok(batch[i].value)

\* the text is the decimal text of an integer
IsIntegerText(t) == ~t.nil /\ ~t.pad /\ t.core \in Decimals /\ IsInteger(t.core)

\* C11: every metafield of type date in a batch about to be sent, by
\* intake-upsert or by the webhook, has a value of the form YYYY-MM-DD.
C11_DatesValid ==
  /\ up.pc = "write" => AllOfType(UpBatch, "date", isYMD)
  /\ wh.pc = "worder" => AllOfType(WhBatch, "date", isYMD)

\* C12: when the submitted cars_count does not convert to a finite number,
\* the cars_count metafield about to be sent is 0.
C12_NonFiniteIsZero ==
  /\ (up.pc = "write" /\ ~IsFinite(Number(UpBody.cars_count)))
       => Written(UpBatch, up.id, "cars_count") = Txt("0")
  /\ (wh.pc = "worder" /\ ~IsFinite(Number(PropsCars(WhOrder))))
       => Written(WhBatch, OrderGid(WhOrder.id), "cars_count") = Txt("0")

\* C13: every metafield of type number_integer in a batch about to be sent
\* carries the decimal text of an integer.
C13_IntegersOnly ==
  /\ up.pc = "write" => AllOfType(UpBatch, "number_integer", IsIntegerText)
  /\ wh.pc = "worder" => AllOfType(WhBatch, "number_integer", IsIntegerText)

\* the data-URL starts with the prefix the claim names: data:image/png in
\* the signature revisions, data: in the generic ones
HasRequiredPrefix(variant, url) ==
  IF variant \in {"adm", "p1"} THEN url = "png" ELSE url \in {"png", "pdf"}

\* the data-URL fields of the submission that are set and lack the prefix
RejectedSlots ==
  { i \in 1..Len(UploadSlots(upVariant)) :
      /\ UpBody.urls[UploadSlots(upVariant)[i]] # ""
      /\ ~HasRequiredPrefix(upVariant, UpBody.urls[UploadSlots(upVariant)[i]]) }

\* ... that have it
AcceptedSlots ==
  { i \in 1..Len(UploadSlots(upVariant)) :
      HasRequiredPrefix(upVariant, UpBody.urls[UploadSlots(upVariant)[i]]) }

UpCallCount(op) == Cardinality({ i \in 1..Len(up.calls) : up.calls[i].op = op })

\* the submission with the rejected data-URL fields left out
WithoutRejected ==
  [UpBody EXCEPT !.urls = [k \in FileKeys |->
     IF \E i \in RejectedSlots : UploadSlots(upVariant)[i] = k THEN "" ELSE @[k]]]

SourceSet(p, key) ==
  CASE key = "insurer" -> NonBlankValue(p.insurer)
    [] key = "dob" -> NonBlankValue(p.dob)
    [] key = "cars_count" -> NonBlankValue(p.cars_count)
    [] key \in {"last_retainer_plan", "current_retainer_plan"} -> NonBlankValue(p.retainer_plan)
    [] key = "retainer_signature" -> p.urls["signature"] # ""
    [] key \in FileKeys -> p.urls[key] # ""
    [] OTHER -> TRUE

\* C15: a key is in the batch intake-upsert is about to send only if its
\* source value in the payload is non-blank.
C15_BlankOmitted ==
  up.pc = "write" =>
    \A i \in 1..Len(UpBatch) : SourceSet(UpBody, UpBatch[i].key)

\* the submission's email, phone or password is missing or malformed
InvalidSubmission(p) ==
  \/ ~isEmail(IntakeEmail(p))
  \/ ~p.phoneOk
  \/ ~Truthy(Trim(ToStr(p.password)))

\* C16: a POST whose email, phone or password is missing or malformed is
\* answered 400 with ok:false, and no remote call is issued for it.
C16_InvalidRejectedFirst ==
  (up.method = "POST" /\ up.pc # "idle" /\ InvalidSubmission(UpBody)) =>
    /\ up.calls = <<>>
    /\ up.pc = "done" /\ up.status = 400 /\ ~up.ok

\* C17: when a customer create, a customer update or a metafield write
\* reported userErrors, the answer is 200 with ok:false; ok:true is answered
\* only when none did.
C17_UserErrorsNotOk ==
  (up.pc = "done" /\ up.userErrors) => (up.status = 200 /\ ~up.ok)

---------------------------------------------------------------------------
(* Properties of the record handler *)

\* client c's PUT was applied by the store and answered ok:true
PutApplied(c) ==
  /\ rc[c].pc = "done" /\ rc[c].method = "PUT"
  /\ rc[c].status = 200 /\ rc[c].ok

\* the row of client c's request: its body's columns, and the URL of the
\* signature the request uploaded
OwnRow(c) == RecordRow(rcVariant, RecordTable[rc[c].body], rc[c].signature_url)

\* C18: after a successful record PUT the row stored for the normalized
\* email is exactly the row of that request: no value of a row stored
\* before survives, a column the body leaves out is null (signature_url
\* included), and while no later write was applied the table holds that
\* row for the email.
C18_LastWriteWins ==
  \A c \in Clients :
    PutApplied(c) =>
      /\ rc[c].stored = {OwnRow(c)}
      /\ \A r \in rc[c].stored :
           /\ r.email = RecordEmail(RecordTable[rc[c].body])
           /\ ~Truthy(rc[c].signature_url) => r.signature_url.nil
           /\ RecordTable[rc[c].body].full_name.nil => r.full_name.nil
      /\ rc[c].seq = rdb.writes => RowsFor(rdb.table, rc[c].email) = {OwnRow(c)}

\* C18's case: a PUT without a name and without a signature was applied
\* over a stored row that had both
C18_Witness ==
  \E c \in Clients :
    /\ PutApplied(c)
    /\ \E old \in rc[c].prev : ~old.signature_url.nil /\ ~old.full_name.nil
    /\ OwnRow(c).signature_url.nil /\ OwnRow(c).full_name.nil
    /\ rc[c].seq = rdb.writes

\* the requests of clients c and d ran at the same time
Concurrent(c, d) == rc[d].id \in rc[c].overlap \/ rc[c].id \in rc[d].overlap

\* C19: of two record PUTs for one email that ran concurrently and reached
\* the store, neither is rejected, the table holds one row for the email,
\* and that row is in full the row of the request whose upsert was applied
\* last.
C19_ConcurrentPuts ==
  \A c, d \in Clients :
    ( /\ c # d /\ Concurrent(c, d)
      /\ rc[c].pc = "done" /\ rc[d].pc = "done"
      /\ rc[c].seq > 0 /\ rc[d].seq > rc[c].seq
      /\ rc[c].email = rc[d].email )
    => /\ PutApplied(c) /\ PutApplied(d)
       /\ Cardinality(RowsFor(rdb.table, rc[d].email)) = 1
       /\ RowsFor(rdb.table, rc[d].email) = {OwnRow(d)}

\* C19's case: two concurrent PUTs for one email whose rows differ in every
\* column but the email were both applied
C19_Witness ==
  \E c, d \in Clients :
    /\ c # d /\ Concurrent(c, d)
    /\ PutApplied(c) /\ PutApplied(d)
    /\ rc[d].seq > rc[c].seq /\ rc[c].seq > 0
    /\ rc[c].email = rc[d].email
    /\ OwnRow(c).full_name # OwnRow(d).full_name
    /\ OwnRow(c).cars_count # OwnRow(d).cars_count
    /\ OwnRow(c).signature_url # OwnRow(d).signature_url

\* C26: the signature_url a PUT stored designates the image this PUT
\* uploaded: the object behind the URL of a request's row is the request's
\* own image, however the PUTs for the email interleave.
C26_OwnSignature ==
  \A c \in Clients :
    (PutApplied(c) /\ rc[c].path # "") =>
      /\ OwnRow(c).signature_url = ObjectUrl(rc[c].path)
      /\ \A o \in ObjectsAt(rdb.bucket, rc[c].path) : o.image = rc[c].id

---------------------------------------------------------------------------
(* Properties of the CORS answers *)

\* the handlers with a strict cors as the description lists them:
\* intake-upsert in its revisions, profile-update, customer-create, record
StrictHandlers == {"sf", "adm", "p1", "p2", "profile-update", "customer-create", "rec"}

\* a request was given its CORS headers
CorsAnswered == cr.pc \in {"handling", "done"}

\* the answer of a strict cors: the origin echoed when it is in the list,
\* no header otherwise
StrictAnswer(env, origin, acao) ==
  IF Truthy(origin) /\ origin \in ORIGINS(env) THEN acao = origin ELSE acao.nil

\* C20 as stated: in intake-upsert, profile-update, customer-create and
\* record, a request whose Origin is not in the configured allow-list gets
\* no Access-Control-Allow-Origin header, and one whose Origin is in the
\* list gets that origin echoed.
C20_StrictCors ==
  (CorsAnswered /\ cr.handler \in StrictHandlers /\ Truthy(cr.origin))
    => StrictAnswer(cr.env, cr.origin, cr.acao)

\* C20 as amended: intake-upsert, profile-update and customer-create answer
\* strictly, a request without Origin getting no header either; record.js
\* answers strictly only a request with an Origin while its allow-list is
\* not empty: with an empty allow-list it echoes every Origin, and a
\* request without Origin gets the header "*".
C20_StrictUnlessUnconfigured ==
  (CorsAnswered /\ cr.handler \in StrictHandlers) =>
    IF cr.handler # "rec" THEN StrictAnswer(cr.env, cr.origin, cr.acao)
    ELSE IF ~Truthy(cr.origin) THEN cr.acao = Txt("*")
    ELSE IF ORIGINS(cr.env) = {} THEN cr.acao = cr.origin
    ELSE StrictAnswer(cr.env, cr.origin, cr.acao)

\* C20's case: record.js without a configured allow-list answered the
\* preflight of an origin by echoing it
C20_Witness ==
  /\ cr.pc = "done" /\ cr.status = 204
  /\ cr.handler = "rec" /\ ORIGINS(cr.env) = {}
  /\ cr.origin = Txt("x") /\ cr.acao = Txt("x")

\* an OPTIONS request was answered
OptionsAnswered == cr.pc = "done" /\ cr.method = "OPTIONS"

\* C21 as stated: every handler, order-webhook included, answers OPTIONS
\* with 204 and the fixed Access-Control-Allow-Methods and -Headers, without
\* reading the body and without a remote call.
C21_OptionsAnswered204 ==
  OptionsAnswered =>
    /\ cr.status = 204
    /\ cr.methods # "" /\ cr.headers # ""
    /\ ~cr.read /\ cr.calls = 0

\* C21 as amended: every handler with a cors function answers OPTIONS with
\* 204 and its fixed Access-Control-Allow-Methods and -Headers; the
\* order-webhook revisions have no cors function and answer OPTIONS with
\* 405 and neither header; in both cases the body is not read and no
\* remote call is issued.
C21_OptionsByHandler ==
  OptionsAnswered =>
    /\ ~cr.read /\ cr.calls = 0
    /\ IF cr.handler \in CorsHandlers
         THEN /\ cr.status = 204
              /\ cr.methods \in {"POST, OPTIONS", "GET, PUT, OPTIONS"}
              /\ cr.headers \in {"Content-Type",
                                 "Content-Type, Authorization, X-Requested-With"}
       ELSE cr.status = 405 /\ cr.methods = "" /\ cr.headers = "" /\ cr.acao.nil

\* C21's case: an order-webhook revision answered an OPTIONS request
C21_Witness ==
  /\ OptionsAnswered
  /\ cr.handler = "main" /\ cr.status = 405

---------------------------------------------------------------------------
(* Properties of the sequencing of intake-upsert's remote calls *)

\* the place of a remote call in the order lookup, create/update, file
\* upload, metafield write, invite, read-back
StepRank(op) ==
  IF op \in {"customersByEmail", "customerCreate", "customerUpdate"} THEN 1
  ELSE IF op \in {"stagedUploadsCreate", "stagedPost", "fileCreate"} THEN 2
  ELSE IF op = "metafieldsSet" THEN 3
  ELSE IF op = "customerSendInvite" THEN 4
  ELSE 5

\* C22: within one intake-upsert invocation the remote calls are issued one
\* after another in the order lookup, create/update, file upload, metafield
\* write, invite: no call is issued while an earlier one is outstanding,
\* and the response is sent only when no call is outstanding.
C22_StrictlySequential ==
  /\ ~up.overlapped
  /\ up.pc = "done" => ~up.pending
  /\ up.calls # <<>> => up.calls[1].op = "customersByEmail"
  /\ \A i, j \in 1..Len(up.calls) :
       i < j => StepRank(up.calls[i].op) <= StepRank(up.calls[j].op)

---------------------------------------------------------------------------
(* Properties of the staged upload *)

UlIssued(op) == \E i \in 1..Len(ul.calls) : ul.calls[i] = op

\* C23: in every upload the steps are request target, POST binary, commit
\* file record, in this order; the POST is issued only with a returned
\* target, the commit only after an accepted POST, and a file reference is
\* put in the batch only with the id a successful commit returned.
C23_StagedHandshake ==
  /\ \E n \in 0..3 :
       ul.calls = SubSeq(<<"stagedUploadsCreate", "stagedPost", "fileCreate">>, 1, n)
  /\ UlIssued("stagedPost") => ul.target
  /\ UlIssued("fileCreate") => ul.posted
  /\ ~ul.ref.nil => (ul.committed /\ ul.ref = ul.fileId)

---------------------------------------------------------------------------
(* Properties of failed writes *)

\* the remote writes a handler issues
WriteOps == {"customerCreate", "customerUpdate", "fileCreate", "metafieldsSet",
             "customerSendInvite"}

\* C24: once a metafield write of an invocation has failed (it threw or
\* reported userErrors), the invocation issues no further remote write, and
\* what earlier steps wrote stays as it was: the remote metafields are
\* those of the moment of the failure.
C24_FailedWriteAborts ==
  wh.brokeAt # 0 =>
    /\ \A i \in 1..Len(wh.calls) : i > wh.brokeAt => wh.calls[i].op \notin WriteOps
    /\ mf = wh.brokeMf

\* the calls of the invocation in progress for one mutation and one target
UpIssued(op, target) ==
  { i \in 1..Len(up.calls) : up.calls[i].op = op /\ up.calls[i].target = target }

\* C25: within one invocation no remote mutation is issued a second time:
\* customerCreate, customerUpdate and metafieldsSet at most once per
\* target, fileCreate at most once per file field, and a customer update
\* that comes back with errors is answered at once with an error.
C25_NoRetry ==
  /\ \A op \in {"customerCreate", "customerUpdate", "metafieldsSet"} :
       \A i \in 1..Len(up.calls) :
         up.calls[i].op = op => Cardinality(UpIssued(op, up.calls[i].target)) = 1
  /\ up.sub # "" => UpCallCount("fileCreate") <= Cardinality(AcceptedSlots)
  /\ (up.userErrors /\ UpHasCall("customerUpdate") /\ ~UpHasCall("metafieldsSet"))
       => (up.pc = "done" /\ ~up.ok)

---------------------------------------------------------------------------
(* Properties of concurrent intake-upsert invocations *)

\* the two invocations
Racers == {up, parked}

\* no remote call of the invocation failed, but for a customerCreate the
\* platform refused because the email was taken
Untroubled(u) == u.failed => u.duplicate

\* the invocation ended with ok:true and the Customer carries its metafields
Succeeded(u) ==
  /\ u.pc = "done" /\ u.status = 200 /\ u.ok
  /\ u.id # NoGid /\ customers[u.id[2]].email = u.email
  /\ \E i \in 1..Len(u.calls) :
       u.calls[i].op = "metafieldsSet" /\ u.calls[i].target = u.id

---------------------------------------------------------------------------
(* Properties of a submission repeated after a failure *)

\* the previous invocation created the customer and then had a call that
\* failed; the same body was submitted again and no call of this invocation
\* failed
ResubmittedAfterFailure ==
  /\ upLog # <<>> /\ upLog[Len(upLog)].sub = up.sub
  /\ upLog[Len(upLog)].created /\ ~upLog[Len(upLog)].clean
  /\ up.method = "POST" /\ up.pc = "done" /\ ~up.failed /\ ~up.pending

\* the account state a submission for a new customer leaves when no call fails
StateOfNewAccount(variant) == IF ViaStorefront(variant) THEN "ENABLED" ELSE "INVITED"

\* C28: when an invocation fails after it created the customer, and the same
\* body is submitted again with every remote call answered successfully, the
\* second invocation is answered ok:true and leaves exactly one customer for
\* the email, in the account state and with exactly the metafields that a
\* single submission without failure leaves: the values of the body, and for
\* each uploaded data-URL a reference to a File this invocation created.
C28_ResubmissionRepairs ==
  ResubmittedAfterFailure =>
    LET single == metafieldsSet([o \in Owners |-> NoFields],
                                IntakeBatch(upVariant, IntakeTable[up.sub], up.id, up.files))
    IN /\ up.status = 200 /\ up.ok
       /\ ~up.created /\ up.found = up.id
       /\ CustomersFor(up.email) = { up.id[2] }
       /\ customers[up.id[2]].state = StateOfNewAccount(upVariant)
       /\ mf[up.id] = single[up.id]
       /\ \A k \in DOMAIN up.files :
            ~up.files[k].nil =>
              up.files[k] \in { FileId(n) : n \in (upSnap.fileCount + 1)..fileCount }

\* C28's case: the first invocation created the customer and its metafield
\* write failed, the second one wrote the metafields
C28_Witness ==
  /\ ResubmittedAfterFailure
  /\ upSnap.mf[up.id] = NoFields
  /\ mf[up.id] # NoFields

---------------------------------------------------------------------------
(* Properties of the owner of the metafields written *)

\* the calls that write to the shop on behalf of a customer
OwnedOps == {"metafieldsSet", "fileCreate"}

\* C29: in intake-upsert and profile-update, every metafield of every batch
\* sent has as ownerId the id, not null, of the customer this invocation
\* found or created for its own normalized email; no metafield write and no
\* file upload is issued without a customer id; profile-update creates no
\* customer, and for an unknown email it writes nothing.
C29_OwnerIsOwnCustomer ==
  /\ \A i \in 1..Len(up.sent) : \A j \in 1..Len(up.sent[i]) :
       /\ up.sent[i][j].ownerId = up.id
       /\ up.id # NoGid
       /\ up.id = up.found \/ up.created
       /\ up.email = IntakeEmail(UpBody)
       /\ customers[up.id[2]].email = up.email
  /\ \A i \in 1..Len(up.calls) :
       up.calls[i].op \in OwnedOps =>
         /\ up.id # NoGid
         /\ up.calls[i].op = "metafieldsSet" => up.calls[i].target = up.id
  /\ Len(up.sent) = Cardinality({ i \in 1..Len(up.calls) : up.calls[i].op = "metafieldsSet" })
  /\ upVariant = "pu" =>
       /\ ~UpHasCall("customerCreate") /\ ~up.created
       /\ customers["c2"] = NoCustomer
       /\ (up.looked /\ up.found = NoGid) =>
            (up.pc = "done" /\ ~up.ok /\ \A i \in 1..Len(up.calls) :
                                           up.calls[i].op \notin OwnedOps)

\* C29's case: profile-update wrote the metafields of the customer it found,
\* and another invocation of it, for an unknown email, was answered ok:false
C29_Witness ==
  /\ upVariant = "pu"
  /\ upLog # <<>> /\ upLog[1].ok
  /\ mf[CustomerGid("c1")] # NoFields
  /\ up.pc = "done" /\ up.looked /\ up.found = NoGid /\ up.status = 200

---------------------------------------------------------------------------
(* Properties of the lists in the Order's metafields *)

ListKeys == {"household_list", "vehicles_list"}

\* the line-item property a list is derived from
ListProperty(key) ==
  IF key = "household_list" THEN "intake_household_json" ELSE "intake_vehicles_json"

\* the entries of the list the Customer has stored, none when the invocation
\* read no Customer or the Customer has no list
StoredList(key) ==
  IF wh.customerGid = NoGid THEN <<>> ELSE JsonArray(mf[wh.customerGid][key]).items

\* the batch has exactly one entry for the key, made of these entries
ListTakenFrom(batch, key, items) ==
  /\ Cardinality({ i \in 1..Len(batch) : batch[i].key = key }) = 1
  /\ \A i \in 1..Len(batch) :
       batch[i].key = key => batch[i].value = Stringify(items)

\* C30: every batch an order-webhook handler sends in one metafieldsSet call
\* has at most one entry per owner and key; the Order's batch has
\* household_list and vehicles_list at most once, made of the Customer's
\* stored list when that is a non-empty list and otherwise of the list
\* derived from the line-item properties, when that is not empty.
C30_ListsOnceFromCustomerFirst ==
  \A n \in 1..Len(wh.sent) :
    LET batch == wh.sent[n]
    IN /\ \A i, j \in 1..Len(batch) :
            (batch[i].ownerId = batch[j].ownerId /\ batch[i].key = batch[j].key) => i = j
       /\ (n = 1 /\ batch[1].ownerId = OrderGid(WhOrder.id)) =>
            \A key \in ListKeys :
              LET stored == StoredList(key)
                  derived == DerivedList(WhOrder, ListProperty(key))
              IN IF stored # <<>> THEN ListTakenFrom(batch, key, stored)
                 ELSE IF derived # <<>> THEN ListTakenFrom(batch, key, derived)
                 ELSE ~SomeKey(batch, key)

===========================================================================
